---- MODULE Spec2Model ----
(***************************************************************************)
(* Maker-checker configuration store of db-connectors.                     *)
(*                                                                         *)
(* The state is the content of two backing stores (the entries table or    *)
(* collection and its sibling <table>_approval_requests) of one backend,   *)
(* plus the position of every API call that is in flight.  An API call     *)
(* that issues one store operation is one action; approve_request issues   *)
(* three store operations (load the pending request, direct write, status  *)
(* update) and is one action per store operation, so that two calls can    *)
(* interleave between them.                                                *)
(***************************************************************************)
EXTENDS Integers, Sequences, FiniteSets, TLC

(***************************************************************************)
(* Bounds of the model.                                                    *)
(***************************************************************************)
MaxRequests == 2      \* approval requests that can be submitted
MaxClock == 4         \* successful store writes (each advances the clock)
MaxAdminClock == 3    \* successful store writes in a run that mixes in admin calls
MaxCallClock == 1     \* successful store writes in a run of connector methods and endpoint calls
MaxPools == 2         \* connection pools and clients open at the same time

(***************************************************************************)
(* Input domains.  "" is the empty string a missing JSON field decodes to; *)
(* request id 0 stands for the empty request id.  The calls explored carry *)
(* their required fields.                                                  *)
(***************************************************************************)
DbTypes == {"mysql", "postgresql", "mongodb"}
Keys == {"k1", "k2"}
InitKey == "_init"                  \* the key of the sentinel document
KeyOrder == <<"_init", "k1", "k2">>  \* ORDER BY config_key
MakerIds == {"u1"}
CheckerIds == {"u1", "u2"}
RejecterIds == {"u2"}                \* the checkers that reject, in the calls explored
Descriptions == {"d"}
Comments == {"c"}
Operations == {"create", "update", "delete"}
Procs == {1, 2}                     \* concurrent approve_request calls
CheckerOf == <<"u1", "u2">>         \* the checker that issues the approve call of each slot
RequestIds == 1..MaxRequests

(***************************************************************************)
(* Go values of the interface{}-typed fields, as <<dynamic type, text>>.   *)
(* Nil is the Go nil (JSON null or a missing field; SQL NULL).             *)
(***************************************************************************)
Nil == <<"nil", "">>
Str(s) == <<"string", s>>
Num(s) == <<"float64", s>>
Values == {Str("a"), Num("7")}
Null == "<null>"                    \* an absent string field / SQL NULL
NoTime == 0                         \* an absent timestamp

\* fmt.Sprintf("%v", value): the text of the value, as a Go string
Sprintf(v) == Str(v[2])

\* valueStr := ""; if value != nil { valueStr = fmt.Sprintf("%v", value) }
valueStr(v) == IF v # Nil THEN Sprintf(v) ELSE Str("")

\* what a TEXT column holds after the driver has bound the argument
SqlText(v) == IF v = Nil THEN Nil ELSE Str(v[2])

IsSQL(db) == db \in {"mysql", "postgresql"}

(***************************************************************************)
(* Connector verbs.                                                        *)
(***************************************************************************)
MySQLVerbs == {"insert", "update", "delete", "select"}
PostgreSQLVerbs == {"insert", "update", "delete", "execute", "select"}
MongoVerbs == {"find", "findOne", "insert", "insertMany", "update", "updateMany",
               "upsert", "delete", "deleteMany", "count", "listCollections"}

\* TRUE iff Execute(operation) reaches the backend instead of returning
\* "unsupported operation"
ExecuteSupported(db, verb) ==
    CASE db = "mysql"      -> verb \in MySQLVerbs
      [] db = "postgresql" -> verb \in PostgreSQLVerbs
      [] db = "mongodb"    -> verb \in MongoVerbs

(***************************************************************************)
(* Connectors.  The db / client field of a connector is "nil" until a      *)
(* Connect succeeds, "open" while it refers to an open pool or client, and *)
(* "closed" once Close has closed the pool it still refers to.  A result   *)
(* is [db, pools, err, names, native]: the field and the number of open    *)
(* pools the method leaves, its error, the verb its error message names,   *)
(* and whether a statement or command was handed to the driver.            *)
(***************************************************************************)
ConnectorStates == {"nil", "open", "closed"}

\* the ping of Connect fails; it succeeds
ConnectOutcomes == {"ping_failed", "connected"}

ConnectorReturn(c, n, err, names, native) ==
    [db |-> c, pools |-> n, err |-> err, names |-> names, native |-> native]

\* Connect: the pool is opened, then pinged; the field is set after a
\* successful ping and the pool is left open when the ping fails
Connect(db, c, n, outcome) ==
    CASE outcome = "ping_failed" -> ConnectorReturn(c, n + 1, "ConnectionError", "", TRUE)
      [] outcome = "connected"   -> ConnectorReturn("open", n + 1, "none", "", TRUE)

\* Ping; alive: the server answers
Ping(db, c, n, alive) ==
    IF c = "nil" THEN ConnectorReturn(c, n, "NotConnected", "", FALSE)
    ELSE IF c = "closed" \/ ~alive THEN ConnectorReturn(c, n, "ConnectionError", "", c = "open")
    ELSE ConnectorReturn(c, n, "none", "", TRUE)

\* IsConnected: false on a nil field, else whether the ping succeeds
IsConnected(db, c, n, alive) == c # "nil" /\ Ping(db, c, n, alive).err = "none"

\* Close: the field keeps referring to the pool.  (*sql.DB).Close on a
\* closed pool returns nil; (*mongo.Client).Disconnect on a disconnected
\* client returns ErrClientDisconnected
Close(db, c, n) ==
    CASE c = "nil"    -> ConnectorReturn(c, n, "none", "", FALSE)
      [] c = "open"   -> ConnectorReturn("closed", n - 1, "none", "", TRUE)
      [] c = "closed" -> ConnectorReturn(c, n, IF IsSQL(db) THEN "none" ELSE "BackendExecutionError",
                                         "", FALSE)

\* the parameters a verb of executeCollectionOperation requires
RequiredParams(verb) ==
    CASE verb = "insert"     -> {"document"}
      [] verb = "insertMany" -> {"documents"}
      [] verb \in {"update", "updateMany", "upsert"} -> {"filter", "update"}
      [] verb \in {"delete", "deleteMany"} -> {"filter"}
      [] OTHER -> {}

\* the statement or command handed to the driver: it fails on a closed pool
Native(c, n) ==
    IF c = "open" THEN ConnectorReturn(c, n, "none", "", TRUE)
    ELSE ConnectorReturn(c, n, "BackendExecutionError", "", FALSE)

\* MongoDBConnector.Execute and executeCollectionOperation
MongoExecute(c, n, verb, params) ==
    IF c = "nil" THEN ConnectorReturn(c, n, "NotConnected", "", FALSE)
    ELSE IF verb = "listCollections" THEN Native(c, n)
    ELSE IF "collection" \notin params THEN ConnectorReturn(c, n, "ValidationError", "", FALSE)
    ELSE IF ~ExecuteSupported("mongodb", verb)
    THEN ConnectorReturn(c, n, "UnsupportedOperation", verb, FALSE)
    ELSE IF ~(RequiredParams(verb) \subseteq params)
    THEN ConnectorReturn(c, n, "ValidationError", "", FALSE)
    ELSE Native(c, n)

\* variant: the verb is looked up before the connection
SQLExecute_VerbFirst(db, c, n, verb, params) ==
    IF ~ExecuteSupported(db, verb) THEN ConnectorReturn(c, n, "UnsupportedOperation", verb, FALSE)
    ELSE IF c = "nil" THEN ConnectorReturn(c, n, "NotConnected", "", FALSE)
    ELSE IF "query" \notin params THEN ConnectorReturn(c, n, "ValidationError", verb, FALSE)
    ELSE Native(c, n)

\* MySQLConnector.Execute, PostgreSQLConnector.Execute
SQLExecute(db, c, n, verb, params) ==
    IF c = "nil" THEN ConnectorReturn(c, n, "NotConnected", "", FALSE)
    ELSE IF ~ExecuteSupported(db, verb) THEN ConnectorReturn(c, n, "UnsupportedOperation", verb, FALSE)
    ELSE IF "query" \notin params THEN ConnectorReturn(c, n, "ValidationError", verb, FALSE)
    ELSE Native(c, n)

Execute(db, c, n, verb, params) ==
    IF IsSQL(db) THEN SQLExecute(db, c, n, verb, params) ELSE MongoExecute(c, n, verb, params)

\* Query: the document connector has none
Query(db, c, n) ==
    IF ~IsSQL(db) THEN ConnectorReturn(c, n, "NotApplicable", "", FALSE)
    ELSE IF c = "nil" THEN ConnectorReturn(c, n, "NotConnected", "", FALSE)
    ELSE Native(c, n)

(***************************************************************************)
(* Sequence helpers.                                                       *)
(***************************************************************************)
\* index of the first element of s that satisfies Test, 0 if none
RECURSIVE FirstIdxFrom(_, _, _)
FirstIdxFrom(s, Test(_), i) ==
    IF i > Len(s) THEN 0
    ELSE IF Test(s[i]) THEN i
    ELSE FirstIdxFrom(s, Test, i + 1)

FirstIdx(s, Test(_)) == FirstIdxFrom(s, Test, 1)

RemoveAt(s, i) == [j \in 1..(Len(s) - 1) |-> IF j < i THEN s[j] ELSE s[j + 1]]

Take(s, n) == IF n >= Len(s) THEN s ELSE SubSeq(s, 1, n)
Drop(s, n) == IF n >= Len(s) THEN <<>> ELSE SubSeq(s, n + 1, Len(s))

\* SQL: LIMIT only when limit > 0, OFFSET only inside the LIMIT branch
SqlPage(s, limit, offset) ==
    IF limit > 0
    THEN IF offset > 0 THEN Take(Drop(s, offset), limit) ELSE Take(s, limit)
    ELSE s

\* document store: params["limit"] and params["skip"] are set independently
MongoPage(s, limit, offset) ==
    LET skipped == IF offset > 0 THEN Drop(s, offset) ELSE s
    IN IF limit > 0 THEN Take(skipped, limit) ELSE skipped

Page(db, s, limit, offset) ==
    IF IsSQL(db) THEN SqlPage(s, limit, offset) ELSE MongoPage(s, limit, offset)

\* ORDER BY config_key / sort {config_key: 1} (stable)
RECURSIVE SortByKeyFrom(_, _)
SortByKeyFrom(s, i) ==
    IF i > Len(KeyOrder) THEN <<>>
    ELSE SelectSeq(s, LAMBDA e : e.config_key = KeyOrder[i]) \o SortByKeyFrom(s, i + 1)

SortByKey(s) == SortByKeyFrom(s, 1)

(***************************************************************************)
(* Text.  Strings are atoms; CharsOf gives the characters of the ones that *)
(* are searched.                                                           *)
(***************************************************************************)
SearchTerms == {"K", "a", "d1"}

CharsOf(s) ==
    CASE s = "k1" -> <<"k", "1">>
      [] s = "k2" -> <<"k", "2">>
      [] s = "K"  -> <<"K">>
      [] s = "a"  -> <<"a">>
      [] s = "7"  -> <<"7">>
      [] s = "d"  -> <<"d">>
      [] s = "d1" -> <<"d", "1">>
      [] s = "_"  -> <<"_">>
      [] s = "."  -> <<".">>
      [] s = "_init" -> <<"_", "i", "n", "i", "t">>
      [] s = "collection_created" ->
            <<"c", "o", "l", "l", "e", "c", "t", "i", "o", "n", "_",
              "c", "r", "e", "a", "t", "e", "d">>
      [] s = "Initial document to create collection" ->
            <<"I", "n", "i", "t", "i", "a", "l", " ", "d", "o", "c", "u", "m", "e", "n", "t", " ",
              "t", "o", " ", "c", "r", "e", "a", "t", "e", " ",
              "c", "o", "l", "l", "e", "c", "t", "i", "o", "n">>
      [] OTHER    -> <<>>

Lower(c) == IF c = "K" THEN "k" ELSE IF c = "I" THEN "i" ELSE c

LowerSeq(cs) == [i \in 1..Len(cs) |-> Lower(cs[i])]

\* TRUE iff pat occurs in txt as a contiguous subsequence
Contains(pat, txt) ==
    \E i \in 0..(Len(txt) - Len(pat)) :
        \A j \in 1..Len(pat) : txt[i + j] = pat[j]

ContainsCI(term, text) == Contains(LowerSeq(CharsOf(term)), LowerSeq(CharsOf(text)))

\* TRUE iff pat occurs in txt, a character wild of pat standing for any
\* one character
ContainsWild(pat, txt, wild) ==
    \E i \in 0..(Len(txt) - Len(pat)) :
        \A j \in 1..Len(pat) : pat[j] = wild \/ txt[i + j] = pat[j]

\* column LIKE '%term%' / ILIKE '%term%' on a TEXT column: NULL never
\* matches, and the term is part of the pattern, where "_" matches any one
\* character
SqlLike(term, v) ==
    v # Nil /\ ContainsWild(LowerSeq(CharsOf(term)), LowerSeq(CharsOf(v[2])), "_")

\* {"$regex": term, "$options": "i"}: only string-typed fields match, and
\* the term is the regular expression, where "." matches any one character
MongoRegex(term, v) ==
    v[1] = "string" /\ ContainsWild(LowerSeq(CharsOf(term)), LowerSeq(CharsOf(v[2])), ".")

(***************************************************************************)
(* Approval requests store: <table>_approval_requests.                     *)
(***************************************************************************)
NewRequest(requestID, operation, key, value, description, makerID, previousValue, now) ==
    [request_id |-> requestID, config_key |-> key, config_value |-> value,
     description |-> description, operation |-> operation, maker_id |-> makerID,
     status |-> "pending", requested_at |-> now, previous_value |-> previousValue,
     checker_id |-> Null, processed_at |-> NoTime, approval_comment |-> Null]

\* variant: the submitted change is also written to the entries store
submitConfigForApproval_Applies(db, ents, reqs, requestID, operation, key, value, description, makerID, previousValue, now) ==
    IF ~ExecuteSupported(db, IF IsSQL(db) THEN "execute" ELSE "insert")
    THEN [entries |-> ents, requests |-> reqs, err |-> "UnsupportedOperation"]
    ELSE [entries |-> Append(ents, [config_key |-> key, config_value |-> value,
                                    description |-> description, status |-> "approved",
                                    maker_id |-> makerID, checker_id |-> Null,
                                    created_at |-> now, updated_at |-> now, approved_at |-> now]),
          requests |-> Append(reqs, NewRequest(requestID, operation, key, value,
                                               description, makerID, previousValue, now)),
          err |-> "none"]

\* submitConfigForApproval: one INSERT / insert of a pending request; the
\* entries store (ents) is within reach of the connector and is not written
submitConfigForApproval(db, ents, reqs, requestID, operation, key, value, description, makerID, previousValue, now) ==
    IF IsSQL(db)
    THEN IF ~ExecuteSupported(db, "execute")
         THEN [entries |-> ents, requests |-> reqs, err |-> "UnsupportedOperation"]
         ELSE [entries |-> ents,
               requests |-> Append(reqs, NewRequest(requestID, operation, key, valueStr(value),
                                                    description, makerID, valueStr(previousValue), now)),
               err |-> "none"]
    ELSE IF ~ExecuteSupported(db, "insert")
         THEN [entries |-> ents, requests |-> reqs, err |-> "UnsupportedOperation"]
         ELSE [entries |-> ents,
               requests |-> Append(reqs, NewRequest(requestID, operation, key, value,
                                                    description, makerID, previousValue, now)),
               err |-> "none"]

\* the columns approveRequest reads from the loaded request
RequestColumns(r) ==
    [request_id |-> r.request_id, config_key |-> r.config_key, config_value |-> r.config_value,
     description |-> r.description, operation |-> r.operation, maker_id |-> r.maker_id,
     previous_value |-> r.previous_value]

\* variant: the request id condition is missing from the lookup
getPendingRequestByID_FirstPending(db, reqs, requestID) ==
    LET i == FirstIdx(reqs, LAMBDA r : r.status = "pending")
    IN IF i = 0 THEN <<>> ELSE <<RequestColumns(reqs[i])>>

\* variant: the status condition is missing from the lookup
getPendingRequestByID_AnyStatus(db, reqs, requestID) ==
    LET i == FirstIdx(reqs, LAMBDA r : r.request_id = requestID)
    IN IF i = 0 THEN <<>> ELSE <<RequestColumns(reqs[i])>>

\* getPendingRequestByID: WHERE request_id = ? AND status = 'pending';
\* <<>> is the nil result, otherwise the first match
getPendingRequestByID(db, reqs, requestID) ==
    LET i == FirstIdx(reqs, LAMBDA r : r.request_id = requestID /\ r.status = "pending")
    IN IF i = 0 THEN <<>> ELSE <<RequestColumns(reqs[i])>>

\* variant: the update leaves processed_at as it was
Resolve_NoProcessedAt(r, status, checkerID, comment, now) ==
    [r EXCEPT !.status = status, !.checker_id = checkerID, !.approval_comment = comment]

\* SET status, checker_id, approval_comment, processed_at = now
Resolve(r, status, checkerID, comment, now) ==
    [r EXCEPT !.status = status, !.checker_id = checkerID,
              !.approval_comment = comment, !.processed_at = now]

\* updateApprovalRequestStatus: UPDATE ... WHERE request_id = ? (every
\* matching row) / UpdateOne {request_id} (the first matching document);
\* no match is not an error
updateApprovalRequestStatus(db, reqs, requestID, status, checkerID, comment, now) ==
    IF IsSQL(db)
    THEN IF ~ExecuteSupported(db, "execute")
         THEN [requests |-> reqs, err |-> "UnsupportedOperation"]
         ELSE [requests |-> [i \in 1..Len(reqs) |->
                                IF reqs[i].request_id = requestID
                                THEN Resolve(reqs[i], status, checkerID, comment, now)
                                ELSE reqs[i]],
               err |-> "none"]
    ELSE IF ~ExecuteSupported(db, "update")
         THEN [requests |-> reqs, err |-> "UnsupportedOperation"]
         ELSE LET i == FirstIdx(reqs, LAMBDA r : r.request_id = requestID)
              IN [requests |-> IF i = 0 THEN reqs
                               ELSE [reqs EXCEPT ![i] = Resolve(reqs[i], status, checkerID, comment, now)],
                  err |-> "none"]

\* getApprovalHistory: status IN ('approved','rejected') ORDER BY processed_at DESC
RECURSIVE SortByProcessedDesc(_, _)
SortByProcessedDesc(s, t) ==
    IF t < 0 THEN <<>>
    ELSE SelectSeq(s, LAMBDA r : r.processed_at = t) \o SortByProcessedDesc(s, t - 1)

\* variant: the history lists approved requests only
getApprovalHistory_ApprovedOnly(db, reqs, limit, offset) ==
    Page(db, SortByProcessedDesc(SelectSeq(reqs, LAMBDA r : r.status = "approved"), MaxClock + 1),
         limit, offset)

getApprovalHistory(db, reqs, limit, offset) ==
    Page(db, SortByProcessedDesc(SelectSeq(reqs, LAMBDA r : r.status \in {"approved", "rejected"}),
                                 MaxClock + 1),
         limit, offset)

\* ORDER BY requested_at ASC / sort {requested_at: 1}
RECURSIVE SortByRequestedAsc(_, _)
SortByRequestedAsc(s, t) ==
    IF t > MaxClock + 1 THEN <<>>
    ELSE SelectSeq(s, LAMBDA r : r.requested_at = t) \o SortByRequestedAsc(s, t + 1)

\* ORDER BY requested_at DESC / sort {requested_at: -1}
RECURSIVE SortByRequestedDesc(_, _)
SortByRequestedDesc(s, t) ==
    IF t < 0 THEN <<>>
    ELSE SelectSeq(s, LAMBDA r : r.requested_at = t) \o SortByRequestedDesc(s, t - 1)

\* getPendingApprovals: status = 'pending' ORDER BY requested_at ASC
getPendingApprovals(db, reqs, limit, offset) ==
    Page(db, SortByRequestedAsc(SelectSeq(reqs, LAMBDA r : r.status = "pending"), 0),
         limit, offset)

\* variant: the requests of the maker, oldest first
getMyRequests_OldestFirst(db, reqs, makerID, limit, offset) ==
    Page(db, SortByRequestedAsc(SelectSeq(reqs, LAMBDA r : r.maker_id = makerID), 0),
         limit, offset)

\* getMyRequests: maker_id = makerID ORDER BY requested_at DESC
getMyRequests(db, reqs, makerID, limit, offset) ==
    Page(db, SortByRequestedDesc(SelectSeq(reqs, LAMBDA r : r.maker_id = makerID), MaxClock + 1),
         limit, offset)

(***************************************************************************)
(* Entries store: the config table / collection.                           *)
(***************************************************************************)
NewEntry(key, value, description, makerID, now) ==
    [config_key |-> key, config_value |-> value, description |-> description,
     status |-> "approved", maker_id |-> makerID, checker_id |-> Null,
     created_at |-> now, updated_at |-> now, approved_at |-> now]

HasKey(ents, key) == \E i \in 1..Len(ents) : ents[i].config_key = key

\* createConfigDirect: INSERT ... 'approved' / insert; a second row for the
\* key is refused only by a unique constraint of the backend
createConfigDirect(db, unique, ents, key, value, description, makerID, now) ==
    IF IsSQL(db)
    THEN IF ~ExecuteSupported(db, "execute")
         THEN [entries |-> ents, err |-> "UnsupportedOperation"]
         ELSE IF unique /\ HasKey(ents, key)
         THEN [entries |-> ents, err |-> "DuplicateKey"]
         ELSE [entries |-> Append(ents, NewEntry(key, SqlText(value), description, makerID, now)),
               err |-> "none"]
    ELSE IF ~ExecuteSupported(db, "insert")
         THEN [entries |-> ents, err |-> "UnsupportedOperation"]
         ELSE IF unique /\ HasKey(ents, key)
         THEN [entries |-> ents, err |-> "DuplicateKey"]
         ELSE [entries |-> Append(ents, NewEntry(key, value, description, makerID, now)),
               err |-> "none"]

\* SET config_value, description, status = 'approved', maker_id, updated_at, approved_at
SetApproved(e, value, description, makerID, now) ==
    [e EXCEPT !.config_value = value, !.description = description, !.status = "approved",
              !.maker_id = makerID, !.updated_at = now, !.approved_at = now]

\* updateConfigDirect: UPDATE ... WHERE config_key = ? on the relational
\* backends (no row is not an error), upsert on the document backend
updateConfigDirect(db, ents, key, value, description, makerID, now) ==
    IF IsSQL(db)
    THEN IF ~ExecuteSupported(db, "execute")
         THEN [entries |-> ents, err |-> "UnsupportedOperation"]
         ELSE [entries |-> [i \in 1..Len(ents) |->
                               IF ents[i].config_key = key
                               THEN SetApproved(ents[i], SqlText(value), description, makerID, now)
                               ELSE ents[i]],
               err |-> "none"]
    ELSE IF ~ExecuteSupported(db, "upsert")
         THEN [entries |-> ents, err |-> "UnsupportedOperation"]
         ELSE LET i == FirstIdx(ents, LAMBDA e : e.config_key = key)
              IN [entries |-> IF i = 0
                              THEN Append(ents, NewEntry(key, value, description, makerID, now))
                              ELSE [ents EXCEPT ![i] = SetApproved(ents[i], value, description, makerID, now)],
                  err |-> "none"]

\* deleteConfigDirect: DELETE ... WHERE config_key = ? / DeleteOne {config_key}
deleteConfigDirect(db, ents, key) ==
    IF IsSQL(db)
    THEN IF ~ExecuteSupported(db, "execute")
         THEN [entries |-> ents, err |-> "UnsupportedOperation"]
         ELSE [entries |-> SelectSeq(ents, LAMBDA e : e.config_key # key), err |-> "none"]
    ELSE IF ~ExecuteSupported(db, "delete")
         THEN [entries |-> ents, err |-> "UnsupportedOperation"]
         ELSE LET i == FirstIdx(ents, LAMBDA e : e.config_key = key)
              IN [entries |-> IF i = 0 THEN ents ELSE RemoveAt(ents, i), err |-> "none"]

(***************************************************************************)
(* Approved-only reads.  A result is the sequence of returned entries.     *)
(***************************************************************************)
\* readApprovedConfig: every matching row (relational), findOne (document)
readApprovedConfig(db, ents, key) ==
    LET match == SelectSeq(ents, LAMBDA e : e.config_key = key /\ e.status = "approved")
    IN IF IsSQL(db) THEN match ELSE Take(match, 1)

readAllApprovedConfigs(db, ents, limit, offset) ==
    Page(db, SortByKey(SelectSeq(ents, LAMBDA e : e.status = "approved")), limit, offset)

searchApprovedConfigs(db, ents, searchTerm, limit, offset) ==
    LET Hit(e) ==
            IF IsSQL(db)
            THEN SqlLike(searchTerm, Str(e.config_key)) \/ SqlLike(searchTerm, e.config_value)
                 \/ SqlLike(searchTerm, Str(e.description))
            ELSE MongoRegex(searchTerm, Str(e.config_key)) \/ MongoRegex(searchTerm, e.config_value)
                 \/ MongoRegex(searchTerm, Str(e.description))
    IN Page(db, SortByKey(SelectSeq(ents, LAMBDA e : e.status = "approved" /\ Hit(e))), limit, offset)

\* the caller-supplied criteria maps explored
FilterFields == {"config_key", "status"}
FilterValuesOf(f) == IF f = "config_key" THEN Keys ELSE {"approved", "pending"}
Filters ==
    UNION {{flt \in [F -> Keys \cup {"approved", "pending"}] :
                \A f \in F : flt[f] \in FilterValuesOf(f)} :
           F \in (SUBSET FilterFields) \ {{}}}

\* the numbers of the $n placeholders the numbered-placeholder branch emits
\* for n criteria: paramIndex starts at 1 and the clause uses paramIndex+1
FilterPlaceholders(n) == {i + 1 : i \in 1..n}

\* filterApprovedConfigs: status = 'approved' AND field = value ... ; on the
\* document backend the caller's map is copied over {status: approved}
filterApprovedConfigs(db, ents, filter, limit, offset) ==
    IF IsSQL(db)
    THEN IF db = "postgresql" /\ FilterPlaceholders(Cardinality(DOMAIN filter)) # 1..Cardinality(DOMAIN filter)
         THEN [rows |-> <<>>, err |-> "BackendExecutionError"]
         ELSE [rows |-> Page(db, SortByKey(SelectSeq(ents, LAMBDA e :
                                e.status = "approved" /\ \A f \in DOMAIN filter : e[f] = filter[f])),
                             limit, offset),
               err |-> "none"]
    ELSE LET combinedFilter == [f \in {"status"} \cup DOMAIN filter |->
                                   IF f \in DOMAIN filter THEN filter[f] ELSE "approved"]
         IN [rows |-> Page(db, SortByKey(SelectSeq(ents, LAMBDA e :
                                \A f \in DOMAIN combinedFilter : e[f] = combinedFilter[f])),
                           limit, offset),
             err |-> "none"]

\* variant: the status condition is missing from the count
countApprovedConfigs_All(db, ents) == Len(ents)

\* SELECT COUNT(*) ... WHERE status = 'approved' / count {status: approved}
countApprovedConfigs(db, ents) == Len(SelectSeq(ents, LAMBDA e : e.status = "approved"))

\* variant: the status condition is missing from the existence count
configExistsApproved_AnyStatus(db, ents, key) ==
    Len(SelectSeq(ents, LAMBDA e : e.config_key = key)) > 0

\* SELECT COUNT(*) ... WHERE config_key = ? AND status = 'approved' / count
\* {config_key, status: approved}; exists is count > 0
configExistsApproved(db, ents, key) ==
    Len(SelectSeq(ents, LAMBDA e : e.config_key = key /\ e.status = "approved")) > 0

(***************************************************************************)
(* Table management, legacy and batch operations on the entries store.     *)
(***************************************************************************)
\* the two tables of getCreateTableSQL
BothTables == {"entries", "requests"}

\* the sentinel document createAllConfigTable inserts: it carries no status
InitDocument(now) ==
    [config_key |-> InitKey, config_value |-> Str("collection_created"),
     description |-> "Initial document to create collection",
     status |-> Null, maker_id |-> Null, checker_id |-> Null,
     created_at |-> now, updated_at |-> now, approved_at |-> NoTime]

\* createAllConfigTable: both CREATE TABLE statements in one Exec (either
\* table existing fails the whole statement list) / the sentinel insert and
\* a createIndex call whose error only shows as index_created = false
createAllConfigTable(db, unique, tbls, ents, now) ==
    IF IsSQL(db)
    THEN IF ~ExecuteSupported(db, "execute")
         THEN [tables |-> tbls, entries |-> ents, unique |-> unique, err |-> "UnsupportedOperation"]
         ELSE IF tbls # {}
         THEN [tables |-> tbls, entries |-> ents, unique |-> unique, err |-> "BackendExecutionError"]
         ELSE [tables |-> BothTables, entries |-> <<>>, unique |-> TRUE, err |-> "none"]
    ELSE IF ~ExecuteSupported(db, "insert")
         THEN [tables |-> tbls, entries |-> ents, unique |-> unique, err |-> "UnsupportedOperation"]
         ELSE IF unique /\ HasKey(ents, InitKey)
         THEN [tables |-> tbls, entries |-> ents, unique |-> unique, err |-> "DuplicateKey"]
         ELSE [tables |-> tbls, entries |-> Append(ents, InitDocument(now)),
               unique |-> unique \/ ExecuteSupported(db, "createIndex"), err |-> "none"]

\* variant: the sibling requests table is emptied with the entries table
dropAllConfigTable_WithRequests(db, tbls, ents, reqs) ==
    IF ~ExecuteSupported(db, IF IsSQL(db) THEN "execute" ELSE "drop")
    THEN [tables |-> tbls, entries |-> ents, requests |-> reqs, err |-> "UnsupportedOperation"]
    ELSE [tables |-> tbls \ {"entries"}, entries |-> <<>>, requests |-> <<>>, err |-> "none"]

\* dropAllConfigTable: DROP TABLE IF EXISTS <table> / Execute "drop"
dropAllConfigTable(db, tbls, ents, reqs) ==
    IF IsSQL(db)
    THEN IF ~ExecuteSupported(db, "execute")
         THEN [tables |-> tbls, entries |-> ents, requests |-> reqs, err |-> "UnsupportedOperation"]
         ELSE [tables |-> tbls \ {"entries"}, entries |-> <<>>, requests |-> reqs, err |-> "none"]
    ELSE IF ~ExecuteSupported(db, "drop")
         THEN [tables |-> tbls, entries |-> ents, requests |-> reqs, err |-> "UnsupportedOperation"]
         ELSE [tables |-> tbls, entries |-> <<>>, requests |-> reqs, err |-> "none"]

\* deleteAllConfigs: DELETE FROM <table> / Execute "delete" with filter {},
\* which is DeleteOne
deleteAllConfigs(db, ents, reqs) ==
    IF IsSQL(db)
    THEN IF ~ExecuteSupported(db, "execute")
         THEN [entries |-> ents, requests |-> reqs, err |-> "UnsupportedOperation"]
         ELSE [entries |-> <<>>, requests |-> reqs, err |-> "none"]
    ELSE IF ~ExecuteSupported(db, "delete")
         THEN [entries |-> ents, requests |-> reqs, err |-> "UnsupportedOperation"]
         ELSE [entries |-> IF ents = <<>> THEN ents ELSE RemoveAt(ents, 1),
               requests |-> reqs, err |-> "none"]

\* the row / document setConfig inserts: the columns it does not name take
\* their defaults (status DEFAULT 'approved') / are absent
LegacyEntry(db, key, value, now) ==
    [config_key |-> key, config_value |-> value, description |-> Null,
     status |-> IF IsSQL(db) THEN "approved" ELSE Null,
     maker_id |-> Null, checker_id |-> Null,
     created_at |-> now, updated_at |-> now, approved_at |-> NoTime]

\* setConfig: INSERT ... ON DUPLICATE KEY UPDATE / ON CONFLICT (config_key)
\* DO UPDATE / upsert; only config_value and updated_at are rewritten
setConfig(db, ents, key, value, now) ==
    IF IsSQL(db)
    THEN IF ~ExecuteSupported(db, "execute")
         THEN [entries |-> ents, err |-> "UnsupportedOperation"]
         ELSE [entries |-> IF HasKey(ents, key)
                           THEN [i \in 1..Len(ents) |->
                                    IF ents[i].config_key = key
                                    THEN [ents[i] EXCEPT !.config_value = SqlText(value),
                                                         !.updated_at = now]
                                    ELSE ents[i]]
                           ELSE Append(ents, LegacyEntry(db, key, SqlText(value), now)),
               err |-> "none"]
    ELSE IF ~ExecuteSupported(db, "upsert")
         THEN [entries |-> ents, err |-> "UnsupportedOperation"]
         ELSE LET i == FirstIdx(ents, LAMBDA e : e.config_key = key)
              IN [entries |-> IF i = 0
                              THEN Append(ents, LegacyEntry(db, key, value, now))
                              ELSE [ents EXCEPT ![i].config_value = value, ![i].updated_at = now],
                  err |-> "none"]

\* results[key] = ...: the result of a later item replaces that of an
\* earlier item with the same key
SetResult(results, key, err) ==
    [k \in (DOMAIN results) \cup {key} |-> IF k = key THEN err ELSE results[k]]

\* setMultipleConfigs: for key, value := range configs, in the order the map
\* iteration yields (order); every error is kept in results[key]
RECURSIVE setMultipleConfigs(_, _, _, _, _, _)
setMultipleConfigs(db, ents, configs, order, results, now) ==
    IF order = <<>>
    THEN [entries |-> ents, results |-> results, now |-> now]
    ELSE LET key == Head(order)
             res == setConfig(db, ents, key, configs[key], now + 1)
         IN setMultipleConfigs(db, res.entries, configs, Tail(order),
                               SetResult(results, key, res.err),
                               IF res.err = "none" THEN now + 1 ELSE now)

\* the direct operation a batch form runs on one item
DirectOperation(kind, db, unique, ents, config, now) ==
    CASE kind = "create" ->
            createConfigDirect(db, unique, ents, config.key, config.value,
                               config.description, config.maker_id, now)
      [] kind = "update" ->
            updateConfigDirect(db, ents, config.key, config.value,
                               config.description, config.maker_id, now)
      [] kind = "delete" ->
            deleteConfigDirect(db, ents, config.key)

\* for _, config := range configs { result, err := ...; if err != nil
\* { results[config.Key] = error } else { ...; successCount++ } }
RECURSIVE BatchLoop(_, _, _, _, _, _)
BatchLoop(kind, db, unique, ents, configs, acc) ==
    IF configs = <<>>
    THEN [entries |-> ents, results |-> acc.results, errs |-> acc.errs,
          successCount |-> acc.successCount, now |-> acc.now]
    ELSE LET res == DirectOperation(kind, db, unique, ents, Head(configs), acc.now + 1)
         IN BatchLoop(kind, db, unique, res.entries, Tail(configs),
                      [results |-> SetResult(acc.results, Head(configs).key, res.err),
                       errs |-> Append(acc.errs, res.err),
                       successCount |-> acc.successCount + (IF res.err = "none" THEN 1 ELSE 0),
                       now |-> IF res.err = "none" THEN acc.now + 1 ELSE acc.now])

\* the response of a batch form, with the entries store it leaves
BatchResponse(configs, loop) ==
    [entries |-> loop.entries, now |-> loop.now, errs |-> loop.errs,
     total_items |-> Len(configs),
     success_count |-> loop.successCount,
     failure_count |-> Len(configs) - loop.successCount,
     results |-> loop.results]

\* results := make(map[string]interface{}); successCount := 0
NoResults(now) == [results |-> <<>>, errs |-> <<>>, successCount |-> 0, now |-> now]

createMultipleConfigsDirect(db, unique, ents, configs, now) ==
    BatchResponse(configs, BatchLoop("create", db, unique, ents, configs, NoResults(now)))

updateMultipleConfigsDirect(db, unique, ents, configs, now) ==
    BatchResponse(configs, BatchLoop("update", db, unique, ents, configs, NoResults(now)))

deleteMultipleConfigsDirect(db, unique, ents, configs, now) ==
    BatchResponse(configs, BatchLoop("delete", db, unique, ents, configs, NoResults(now)))

\* executeOperation: an insert statement on the entries table, issued
\* through the generic operation endpoint; the caller chooses every column
executeOperation(db, unique, ents, key, value, status, now) ==
    IF ~ExecuteSupported(db, "insert")
    THEN [entries |-> ents, err |-> "UnsupportedOperation"]
    ELSE IF unique /\ HasKey(ents, key)
    THEN [entries |-> ents, err |-> "DuplicateKey"]
    ELSE [entries |-> Append(ents, [config_key |-> key,
                                    config_value |-> IF IsSQL(db) THEN SqlText(value) ELSE value,
                                    description |-> Null, status |-> status,
                                    maker_id |-> Null, checker_id |-> Null,
                                    created_at |-> now, updated_at |-> now,
                                    approved_at |-> NoTime]),
          err |-> "none"]

(***************************************************************************)
(* State.                                                                  *)
(***************************************************************************)
VARIABLES
    dbType,        \* the backend of the connection descriptor
    uniqueIndex,   \* the entries store refuses a second entry for a key
    entries,       \* the entries table / collection, in insertion order
    requests,      \* <table>_approval_requests, in insertion order
    calls,         \* per API call slot: position inside approveRequest and its locals
    clock,         \* NOW() / time.Now() of the latest write
    nextId,        \* number of request ids generated and stored so far
    last,          \* outcome of the config or governance call that returned most recently
    created,       \* history: keys for which a direct write ever inserted an entry
    applied,       \* history: per request id, direct writes that succeeded for it
    lastApproved,  \* history: per key, the request whose approval completed last
    tables,        \* the tables of the relational schema that exist
    tableCreated,  \* history: a create_table call has succeeded
    batch,         \* the counts and per-key results the latest call returned, if a batch
    connector,     \* the db / client field of the connector a client program holds
    pools,         \* number of connection pools and clients that are open
    ret            \* outcome of the connector method or handler that returned most recently

vars == <<dbType, uniqueIndex, entries, requests, calls, clock, nextId, last,
          created, applied, lastApproved, tables, tableCreated, batch,
          connector, pools, ret>>

\* the stores and the API calls on them
storeVars == <<dbType, uniqueIndex, entries, requests, calls, clock, nextId, last,
               created, applied, lastApproved, tables, tableCreated, batch>>

NoReturn ==
    [op |-> "none", verb |-> "", params |-> {}, was |-> "nil", err |-> "none", names |-> "",
     native |-> FALSE, open |-> 0, value |-> <<>>]

NoBatch == [op |-> "none"]

IdleCall == [pc |-> "idle", rid |-> 0, checker |-> "", comment |-> "", request |-> <<>>, err |-> "none"]

NoCall == [op |-> "none", err |-> "none", rid |-> 0]

Init ==
    /\ dbType \in DbTypes
    /\ uniqueIndex \in (IF dbType = "mongodb" THEN BOOLEAN ELSE {TRUE})
    /\ entries = <<>>
    /\ requests = <<>>
    /\ calls = [p \in Procs |-> IdleCall]
    /\ clock = 0
    /\ nextId = 0
    /\ last = NoCall
    /\ created = {}
    /\ applied = [r \in RequestIds |-> 0]
    /\ lastApproved = [k \in Keys |-> 0]
    /\ tables = BothTables
    /\ tableCreated = FALSE
    /\ batch = NoBatch
    /\ connector = "nil"
    /\ pools = 0
    /\ ret = NoReturn

AllIdle == \A p \in Procs : calls[p].pc = "idle"

\* a statement on a table that does not exist fails in the backend
Missing(table) == table \notin tables

Returned(op, err, rid) == [op |-> op, err |-> err, rid |-> rid]

(***************************************************************************)
(* submit_create / submit_update / submit_delete                           *)
(***************************************************************************)
\* executeAllConfigOperation: the value handed to submitConfigForApproval
SubmittedValue(operation, value) == IF operation = "delete" THEN Nil ELSE value

Submit(operation, key, value, description, makerID) ==
    /\ nextId < MaxRequests
    /\ clock < MaxClock
    /\ LET requestID == nextId + 1
           res == IF key = "" \/ makerID = ""
                  THEN [entries |-> entries, requests |-> requests, err |-> "ValidationError"]
                  ELSE IF Missing("requests")
                  THEN [entries |-> entries, requests |-> requests, err |-> "BackendExecutionError"]
                  ELSE submitConfigForApproval(dbType, entries, requests, requestID, operation, key,
                                               SubmittedValue(operation, value), description,
                                               makerID, Nil, clock + 1)
       IN /\ entries' = res.entries
          /\ requests' = res.requests
          /\ nextId' = IF res.err = "none" THEN requestID ELSE nextId
          /\ clock' = IF res.err = "none" THEN clock + 1 ELSE clock
          /\ last' = Returned("submit_" \o operation, res.err, IF res.err = "none" THEN requestID ELSE 0)
    /\ UNCHANGED <<connector, pools, ret, dbType, uniqueIndex, calls, created, applied, lastApproved, tables, tableCreated>>
    /\ batch' = NoBatch

(***************************************************************************)
(* reject_request                                                          *)
(***************************************************************************)
\* variant: the reject also removes the entries of the rejected key
rejectRequest_RemovesEntry(db, ents, reqs, requestID, checkerID, comment, now) ==
    LET res == updateApprovalRequestStatus(db, reqs, requestID, "rejected", checkerID, comment, now)
        keys == {reqs[i].config_key : i \in {j \in 1..Len(reqs) : reqs[j].request_id = requestID}}
    IN [entries |-> SelectSeq(ents, LAMBDA e : e.config_key \notin keys),
        requests |-> res.requests, err |-> res.err]

\* rejectRequest: the status update alone
rejectRequest(db, ents, reqs, requestID, checkerID, comment, now) ==
    LET res == updateApprovalRequestStatus(db, reqs, requestID, "rejected", checkerID, comment, now)
    IN [entries |-> ents, requests |-> res.requests, err |-> res.err]

Reject(requestID, checkerID, comment) ==
    /\ clock < MaxClock
    /\ LET res == IF requestID = 0 \/ checkerID = ""
                  THEN [entries |-> entries, requests |-> requests, err |-> "ValidationError"]
                  ELSE IF Missing("requests")
                  THEN [entries |-> entries, requests |-> requests, err |-> "BackendExecutionError"]
                  ELSE rejectRequest(dbType, entries, requests, requestID, checkerID, comment, clock + 1)
       IN /\ entries' = res.entries
          /\ requests' = res.requests
          /\ clock' = IF res.err = "none" THEN clock + 1 ELSE clock
          /\ last' = Returned("reject_request", res.err, requestID)
    /\ UNCHANGED <<connector, pools, ret, dbType, uniqueIndex, calls, nextId, created, applied, lastApproved, tables, tableCreated>>
    /\ batch' = NoBatch

(***************************************************************************)
(* approve_request: load, direct write, status update                      *)
(***************************************************************************)
\* approveRequest, step 1: request == nil -> "request not found or not in
\* pending status"
ApproveLoad(p, requestID, checkerID, comment) ==
    /\ calls[p].pc = "idle"
    /\ checkerID = CheckerOf[p]
    /\ LET request == getPendingRequestByID(dbType, requests, requestID)
           err == IF requestID = 0 \/ checkerID = "" THEN "ValidationError"
                  ELSE IF Missing("requests") THEN "BackendExecutionError"
                  ELSE IF request = <<>> THEN "NotFound"
                  ELSE "none"
       IN IF err # "none"
          THEN /\ last' = Returned("approve_request", err, requestID)
               /\ UNCHANGED calls
          ELSE /\ calls' = [calls EXCEPT ![p] = [pc |-> "apply", rid |-> requestID,
                                                 checker |-> checkerID, comment |-> comment,
                                                 request |-> request, err |-> "none"]]
               /\ UNCHANGED last
    /\ UNCHANGED <<connector, pools, ret, dbType, uniqueIndex, entries, requests, clock, nextId, created, applied, lastApproved, tables, tableCreated>>
    /\ batch' = NoBatch

\* approveRequest, step 2: the switch on request["operation"]
applyApprovedChange(db, unique, ents, request, now) ==
    CASE request.operation = "create" ->
            createConfigDirect(db, unique, ents, request.config_key, request.config_value,
                               request.description, request.maker_id, now)
      [] request.operation = "update" ->
            updateConfigDirect(db, ents, request.config_key, request.config_value,
                               request.description, request.maker_id, now)
      [] request.operation = "delete" ->
            deleteConfigDirect(db, ents, request.config_key)
      [] OTHER -> [entries |-> ents, err |-> "UnsupportedOperation"]

\* variant: the error of the direct write is not checked
AfterApply_IgnoreErr(err) == "status"

\* if err != nil { return nil, "failed to apply approved change" }
AfterApply(err) == IF err # "none" THEN "idle" ELSE "status"

\* applyFails: the backend fails the statement (timeout, lost connection)
ApproveApply(p, applyFails) ==
    /\ calls[p].pc = "apply"
    /\ clock < MaxClock
    /\ LET request == calls[p].request[1]
           res == IF applyFails \/ Missing("entries")
                  THEN [entries |-> entries, err |-> "BackendExecutionError"]
                  ELSE applyApprovedChange(dbType, uniqueIndex, entries, request, clock + 1)
           pc == AfterApply(res.err)
       IN /\ entries' = res.entries
          /\ clock' = IF res.err = "none" THEN clock + 1 ELSE clock
          /\ applied' = IF res.err = "none"
                        THEN [applied EXCEPT ![calls[p].rid] = @ + 1]
                        ELSE applied
          /\ created' = IF Len(res.entries) > Len(entries)
                        THEN created \cup {request.config_key}
                        ELSE created
          /\ IF pc = "idle"
             THEN /\ calls' = [calls EXCEPT ![p] = IdleCall]
                  /\ last' = Returned("approve_request", res.err, calls[p].rid)
             ELSE /\ calls' = [calls EXCEPT ![p].pc = pc, ![p].err = res.err]
                  /\ UNCHANGED last
    /\ UNCHANGED <<connector, pools, ret, dbType, uniqueIndex, requests, nextId, lastApproved, tables, tableCreated>>
    /\ batch' = NoBatch

\* variant: a failed status update undoes the direct write
ApproveStatus_UndoesWrite(p, updateFails) ==
    /\ calls[p].pc = "status"
    /\ clock < MaxClock
    /\ LET request == calls[p].request[1]
           res == IF updateFails \/ Missing("requests")
                  THEN [requests |-> requests, err |-> "BackendExecutionError"]
                  ELSE updateApprovalRequestStatus(dbType, requests, calls[p].rid, "approved",
                                                   calls[p].checker, calls[p].comment, clock + 1)
       IN /\ requests' = res.requests
          /\ clock' = IF res.err = "none" THEN clock + 1 ELSE clock
          /\ lastApproved' = IF res.err = "none"
                             THEN [lastApproved EXCEPT ![request.config_key] = calls[p].rid]
                             ELSE lastApproved
          /\ applied' = IF res.err = "none" THEN applied
                        ELSE [applied EXCEPT ![calls[p].rid] = @ - 1]
          /\ last' = Returned("approve_request", res.err, calls[p].rid)
    /\ calls' = [calls EXCEPT ![p] = IdleCall]
    /\ UNCHANGED <<connector, pools, ret, dbType, uniqueIndex, entries, nextId, created, tables, tableCreated>>
    /\ batch' = NoBatch

\* approveRequest, step 3; updateFails: the backend fails the statement
ApproveStatus(p, updateFails) ==
    /\ calls[p].pc = "status"
    /\ clock < MaxClock
    /\ LET request == calls[p].request[1]
           res == IF updateFails \/ Missing("requests")
                  THEN [requests |-> requests, err |-> "BackendExecutionError"]
                  ELSE updateApprovalRequestStatus(dbType, requests, calls[p].rid, "approved",
                                                   calls[p].checker, calls[p].comment, clock + 1)
       IN /\ requests' = res.requests
          /\ clock' = IF res.err = "none" THEN clock + 1 ELSE clock
          /\ lastApproved' = IF res.err = "none"
                             THEN [lastApproved EXCEPT ![request.config_key] = calls[p].rid]
                             ELSE lastApproved
          /\ last' = Returned("approve_request", res.err, calls[p].rid)
    /\ calls' = [calls EXCEPT ![p] = IdleCall]
    /\ UNCHANGED <<connector, pools, ret, dbType, uniqueIndex, entries, nextId, created, applied, tables, tableCreated>>
    /\ batch' = NoBatch

(***************************************************************************)
(* Table management, direct (admin), legacy and batch calls.  Each issues  *)
(* its store operations one after the other inside one call.               *)
(***************************************************************************)
KeysOf(ents) == {ents[i].config_key : i \in 1..Len(ents)}

\* the call returns: the stores it leaves and its outcome
StoreReturn(op, ents, reqs, err, now) ==
    /\ entries' = ents
    /\ requests' = reqs
    /\ clock' = now
    /\ created' = created \cup (KeysOf(ents) \cap Keys)
    /\ last' = Returned(op, err, 0)
    /\ UNCHANGED <<connector, pools, ret, dbType, calls, nextId, applied, lastApproved>>

Tick(err) == IF err = "none" THEN clock + 1 ELSE clock

BackendError(ents) == [entries |-> ents, err |-> "BackendExecutionError"]

\* create_table
CreateTable ==
    /\ clock < MaxClock
    /\ LET res == createAllConfigTable(dbType, uniqueIndex, tables, entries, clock + 1)
       IN /\ StoreReturn("create_table", res.entries, requests, res.err, Tick(res.err))
          /\ tables' = res.tables
          /\ uniqueIndex' = res.unique
          /\ tableCreated' = (tableCreated \/ res.err = "none")
    /\ batch' = NoBatch

\* drop_table
DropTable ==
    /\ clock < MaxClock
    /\ LET res == dropAllConfigTable(dbType, tables, entries, requests)
       IN /\ StoreReturn("drop_table", res.entries, res.requests, res.err, Tick(res.err))
          /\ tables' = res.tables
    /\ batch' = NoBatch
    /\ UNCHANGED <<uniqueIndex, tableCreated>>

\* delete_all
DeleteAll ==
    /\ clock < MaxClock
    /\ LET res == IF Missing("entries")
                  THEN [entries |-> entries, requests |-> requests, err |-> "BackendExecutionError"]
                  ELSE deleteAllConfigs(dbType, entries, requests)
       IN StoreReturn("delete_all", res.entries, res.requests, res.err, Tick(res.err))
    /\ batch' = NoBatch
    /\ UNCHANGED <<uniqueIndex, tables, tableCreated>>

\* direct_create / create / set_config
DirectCreate(key, value, description, makerID) ==
    /\ clock < MaxClock
    /\ LET res == IF Missing("entries") THEN BackendError(entries)
                  ELSE createConfigDirect(dbType, uniqueIndex, entries, key, value,
                                          description, makerID, clock + 1)
       IN StoreReturn("direct_create", res.entries, requests, res.err, Tick(res.err))
    /\ batch' = NoBatch
    /\ UNCHANGED <<uniqueIndex, tables, tableCreated>>

\* direct_update / update
DirectUpdate(key, value, description, makerID) ==
    /\ clock < MaxClock
    /\ LET res == IF Missing("entries") THEN BackendError(entries)
                  ELSE updateConfigDirect(dbType, entries, key, value, description,
                                          makerID, clock + 1)
       IN StoreReturn("direct_update", res.entries, requests, res.err, Tick(res.err))
    /\ batch' = NoBatch
    /\ UNCHANGED <<uniqueIndex, tables, tableCreated>>

\* direct_delete / delete / delete_config
DirectDelete(key) ==
    /\ clock < MaxClock
    /\ LET res == IF Missing("entries") THEN BackendError(entries)
                  ELSE deleteConfigDirect(dbType, entries, key)
       IN StoreReturn("direct_delete", res.entries, requests, res.err, Tick(res.err))
    /\ batch' = NoBatch
    /\ UNCHANGED <<uniqueIndex, tables, tableCreated>>

\* the response of a batch form whose every statement fails in the backend
AllFail(configs, now) ==
    [entries |-> entries, now |-> now,
     errs |-> [i \in 1..Len(configs) |-> "BackendExecutionError"],
     total_items |-> Len(configs), success_count |-> 0, failure_count |-> Len(configs),
     results |-> [k \in {configs[i].key : i \in 1..Len(configs)} |-> "BackendExecutionError"]]

\* direct_create_batch, direct_update_batch, direct_delete_batch with
\* config_items
DirectBatch(kind, configs) ==
    /\ clock + Len(configs) <= MaxClock
    /\ LET res == IF Missing("entries") THEN AllFail(configs, clock)
                  ELSE CASE kind = "create" ->
                              createMultipleConfigsDirect(dbType, uniqueIndex, entries, configs, clock)
                         [] kind = "update" ->
                              updateMultipleConfigsDirect(dbType, uniqueIndex, entries, configs, clock)
                         [] kind = "delete" ->
                              deleteMultipleConfigsDirect(dbType, uniqueIndex, entries, configs, clock)
       IN /\ StoreReturn("direct_" \o kind \o "_batch", res.entries, requests, "none", res.now)
          /\ batch' = [op |-> kind, configs |-> configs, errs |-> res.errs,
                       total_items |-> res.total_items,
                       success_count |-> res.success_count,
                       failure_count |-> res.failure_count,
                       results |-> res.results]
    /\ UNCHANGED <<uniqueIndex, tables, tableCreated>>

\* set_multiple with configs (the legacy map form)
SetMultiple(configs, order) ==
    /\ clock + Len(order) <= MaxClock
    /\ LET res == IF Missing("entries")
                  THEN [entries |-> entries, now |-> clock]
                  ELSE setMultipleConfigs(dbType, entries, configs, order, <<>>, clock)
       IN StoreReturn("set_multiple", res.entries, requests, "none", res.now)
    /\ batch' = NoBatch
    /\ UNCHANGED <<uniqueIndex, tables, tableCreated>>

\* the generic operation endpoint, inserting into the entries table
ExecuteOperation(key, value, status) ==
    /\ clock < MaxClock
    /\ LET res == IF Missing("entries") THEN BackendError(entries)
                  ELSE executeOperation(dbType, uniqueIndex, entries, key, value, status, clock + 1)
       IN StoreReturn("insert", res.entries, requests, res.err, Tick(res.err))
    /\ batch' = NoBatch
    /\ UNCHANGED <<uniqueIndex, tables, tableCreated>>

\* the calls explored
ConfigItems ==
    {[key |-> k, value |-> Str("a"), description |-> "d", maker_id |-> "u1"] : k \in Keys}

ConfigItem(k) == CHOOSE a \in ConfigItems : a.key = k

ConfigItemLists == {<<ConfigItem("k2")>>, <<ConfigItem("k1"), ConfigItem("k2")>>}

LegacyConfigs == UNION {[K -> {Num("7")}] : K \in {{"k1"}, Keys}}

\* the values the direct calls explored carry
CreatedValues == {Str("a")}
UpdatedValues == {Num("7")}

AdminBudget == clock < MaxAdminClock

\* the orders in which a range over the map can yield its keys
Orders(configs) ==
    {o \in UNION {[1..n -> DOMAIN configs] : n \in {Cardinality(DOMAIN configs)}} :
        \A k \in DOMAIN configs : \E i \in DOMAIN o : o[i] = k}

InsertedStatuses == {"pending", "rejected"}

CreateTableStep == AllIdle /\ AdminBudget /\ CreateTable

DropTableStep == AllIdle /\ AdminBudget /\ DropTable

DeleteAllStep == AllIdle /\ AdminBudget /\ DeleteAll

DirectCreateStep ==
    /\ AllIdle
    /\ AdminBudget
    /\ \E key \in Keys, value \in CreatedValues, description \in Descriptions, makerID \in MakerIds :
          DirectCreate(key, value, description, makerID)

DirectUpdateStep ==
    /\ AllIdle
    /\ AdminBudget
    /\ \E key \in Keys, value \in UpdatedValues, description \in Descriptions, makerID \in MakerIds :
          DirectUpdate(key, value, description, makerID)

DirectDeleteStep == AllIdle /\ AdminBudget /\ \E key \in Keys : DirectDelete(key)

DirectBatchStep ==
    /\ AllIdle
    /\ \E kind \in Operations, configs \in ConfigItemLists :
          clock + Len(configs) <= MaxAdminClock /\ DirectBatch(kind, configs)

SetMultipleStep ==
    /\ AllIdle
    /\ \E configs \in LegacyConfigs : \E order \in Orders(configs) :
          clock + Len(order) <= MaxAdminClock /\ SetMultiple(configs, order)

ExecuteOperationStep ==
    /\ AllIdle
    /\ AdminBudget
    /\ \E key \in Keys, status \in InsertedStatuses : ExecuteOperation(key, Str("a"), status)

(***************************************************************************)
(* Specifications.                                                         *)
(***************************************************************************)
SubmitStep ==
    \E operation \in Operations, key \in Keys, value \in Values,
       description \in Descriptions, makerID \in MakerIds :
        Submit(operation, key, value, description, makerID)

RejectStep ==
    \E requestID \in RequestIds, checkerID \in RejecterIds, comment \in Comments :
        Reject(requestID, checkerID, comment)

ApproveLoadStep ==
    \E p \in Procs, requestID \in RequestIds, checkerID \in CheckerIds, comment \in Comments :
        ApproveLoad(p, requestID, checkerID, comment)

ApproveApplyStep == \E p \in Procs : ApproveApply(p, FALSE)

ApproveStatusStep == \E p \in Procs : ApproveStatus(p, FALSE)

ApproveApplyFailure == \E p \in Procs : ApproveApply(p, TRUE)

ApproveStatusFailure == \E p \in Procs : ApproveStatus(p, TRUE)

\* API calls run concurrently, each on its own connector; the backend
\* executes every statement it accepts
Next ==
    \/ SubmitStep
    \/ RejectStep
    \/ ApproveLoadStep
    \/ ApproveApplyStep
    \/ ApproveStatusStep

Spec == Init /\ [][Next]_vars

\* API calls run one after the other; the backend executes every statement
\* it accepts
SeqNext ==
    \/ AllIdle /\ SubmitStep
    \/ AllIdle /\ RejectStep
    \/ AllIdle /\ ApproveLoadStep
    \/ ApproveApplyStep
    \/ ApproveStatusStep

SeqSpec == Init /\ [][SeqNext]_vars

\* API calls run one after the other; the backend can fail the direct write
\* or the status update of an approve
FaultNext ==
    \/ AllIdle /\ SubmitStep
    \/ AllIdle /\ RejectStep
    \/ AllIdle /\ ApproveLoadStep
    \/ ApproveApplyStep
    \/ ApproveStatusStep
    \/ ApproveApplyFailure
    \/ ApproveStatusFailure

FaultSpec == Init /\ [][FaultNext]_vars

\* the state a backend is found in: on the relational backend with
\* numbered placeholders the two tables may not exist yet
AdminInit ==
    /\ dbType \in DbTypes
    /\ uniqueIndex \in (IF dbType = "mongodb" THEN BOOLEAN ELSE {TRUE})
    /\ tables \in (IF dbType = "postgresql" THEN {{}, BothTables} ELSE {BothTables})
    /\ tableCreated = FALSE
    /\ entries = <<>>
    /\ requests = <<>>
    /\ calls = [p \in Procs |-> IdleCall]
    /\ clock = 0
    /\ nextId = 0
    /\ last = NoCall
    /\ created = {}
    /\ applied = [r \in RequestIds |-> 0]
    /\ lastApproved = [k \in Keys |-> 0]
    /\ batch = NoBatch
    /\ connector = "nil"
    /\ pools = 0
    /\ ret = NoReturn

\* every config and governance call, one after the other
AdminNext ==
    \/ CreateTableStep
    \/ DropTableStep
    \/ DeleteAllStep
    \/ DirectCreateStep
    \/ DirectUpdateStep
    \/ DirectDeleteStep
    \/ DirectBatchStep
    \/ SetMultipleStep
    \/ ExecuteOperationStep
    \/ AdminBudget /\ AllIdle /\ SubmitStep
    \/ AdminBudget /\ AllIdle /\ RejectStep
    \/ AdminBudget /\ AllIdle /\ ApproveLoadStep
    \/ AdminBudget /\ ApproveApplyStep
    \/ AdminBudget /\ ApproveStatusStep

AdminSpec == AdminInit /\ [][AdminNext]_vars

TypeOK ==
    /\ dbType \in DbTypes
    /\ clock \in 0..MaxClock
    /\ nextId \in 0..MaxRequests
    /\ Len(requests) = nextId

(***************************************************************************)
(* Connector methods called by a client program, and the config operation  *)
(* endpoint, which creates, connects and closes a connector of its own.    *)
(***************************************************************************)
MethodReturn(op, verb, params, res) ==
    [op |-> op, verb |-> verb, params |-> params, was |-> connector, err |-> res.err,
     names |-> res.names, native |-> res.native, open |-> res.pools - pools, value |-> <<>>]

ConnectorStep(op, verb, params, res) ==
    /\ connector' = res.db
    /\ pools' = res.pools
    /\ ret' = MethodReturn(op, verb, params, res)
    /\ UNCHANGED storeVars

\* the verbs and parameter maps explored
ExploredVerbs ==
    {"select", "insert", "execute", "findOne", "upsert", "listCollections", "truncate"}

ParamSets == {{}, {"query"}, {"collection"}}

ConnectStep ==
    \E outcome \in ConnectOutcomes :
        /\ pools < MaxPools
        /\ ConnectorStep("Connect", "", {}, Connect(dbType, connector, pools, outcome))

PingStep ==
    \E alive \in BOOLEAN : ConnectorStep("Ping", "", {}, Ping(dbType, connector, pools, alive))

IsConnectedStep ==
    \E alive \in BOOLEAN :
        /\ ret' = [MethodReturn("IsConnected", "", {}, Ping(dbType, connector, pools, alive))
                      EXCEPT !.value = <<IsConnected(dbType, connector, pools, alive)>>]
        /\ UNCHANGED <<connector, pools>>
        /\ UNCHANGED storeVars

CloseStep == ConnectorStep("Close", "", {}, Close(dbType, connector, pools))

ExecuteStep ==
    \E verb \in ExploredVerbs, params \in ParamSets :
        ConnectorStep("Execute", verb, params, Execute(dbType, connector, pools, verb, params))

QueryStep == ConnectorStep("Query", "select", {"query"}, Query(dbType, connector, pools))

\* the case labels of executeAllConfigOperation
SupportedOperations ==
    {"create_table", "drop_table", "submit_create", "submit_update", "submit_delete",
     "approve_request", "reject_request", "get_pending_approvals", "get_my_requests",
     "get_approval_history", "direct_create", "create", "set_config", "direct_create_batch",
     "create_batch", "set_multiple", "read", "get_config", "read_all", "get_all", "search",
     "filter", "read_all_admin", "search_admin", "direct_update", "update",
     "direct_update_batch", "update_batch", "direct_delete", "delete", "delete_config",
     "direct_delete_batch", "delete_batch", "direct_delete_all", "delete_all", "count",
     "count_admin", "exists"}

\* the request fields an operation returns an error without
RequiredFields(operation) ==
    CASE operation \in {"submit_create", "submit_update", "submit_delete"} -> {"key", "maker_id"}
      [] operation \in {"approve_request", "reject_request"} -> {"request_id", "checker_id"}
      [] operation = "get_my_requests" -> {"maker_id"}
      [] operation \in {"direct_create", "create", "set_config", "read", "get_config",
                        "direct_update", "update", "direct_delete", "delete", "delete_config",
                        "exists"} -> {"key"}
      [] operation \in {"search", "search_admin"} -> {"search_term"}
      [] operation = "filter" -> {"filter"}
      [] operation \in {"direct_update_batch", "update_batch", "direct_delete_batch",
                        "delete_batch"} -> {"config_items"}
      [] OTHER -> {}

\* the operation returns an error for its input before any statement
MissingInput(req) ==
    IF req.operation \in {"direct_create_batch", "create_batch", "set_multiple"}
    THEN {"config_items", "configs"} \subseteq req.missing
    ELSE RequiredFields(req.operation) \cap req.missing # {}

\* coll.FindOne(ctx, filter).Decode(&result) of the driver
FindOne(docs) ==
    IF docs = <<>> THEN [value |-> <<>>, err |-> "ErrNoDocuments"]
    ELSE [value |-> <<docs[1]>>, err |-> "none"]

\* variant: the error of the driver is returned as it is
findOne_ReturnsNoDocuments(docs) ==
    LET res == FindOne(docs)
    IN [value |-> res.value, err |-> IF res.err = "none" THEN "none" ELSE "BackendExecutionError"]

\* executeCollectionOperation, case "findOne": no document is nil, nil
findOne(docs) ==
    LET res == FindOne(docs)
    IN IF res.err = "ErrNoDocuments" THEN [value |-> <<>>, err |-> "none"]
       ELSE IF res.err # "none" THEN [value |-> <<>>, err |-> "BackendExecutionError"]
       ELSE [value |-> res.value, err |-> "none"]

OperationResult(ents, reqs, err, names, value) ==
    [entries |-> ents, requests |-> reqs, err |-> err, names |-> names, value |-> value]

\* variant: an operation without a case is answered with an empty result
executeAllConfigOperation_NoDefault(db, unique, ents, reqs, req, requestID, now) ==
    OperationResult(ents, reqs, "none", "", <<>>)

\* executeAllConfigOperation, for the operations whose complete requests are
\* explored: submit_create, direct_create and read
executeAllConfigOperation(db, unique, ents, reqs, req, requestID, now) ==
    IF req.operation \notin SupportedOperations
    THEN OperationResult(ents, reqs, "UnsupportedOperation", req.operation, <<>>)
    ELSE IF MissingInput(req)
    THEN OperationResult(ents, reqs, "ValidationError", "", <<>>)
    ELSE CASE req.operation = "submit_create" ->
                LET res == submitConfigForApproval(db, ents, reqs, requestID, "create", req.key,
                                                   req.value, req.description, req.maker_id, Nil, now)
                IN OperationResult(res.entries, res.requests, res.err, "", <<>>)
           [] req.operation = "direct_create" ->
                LET res == createConfigDirect(db, unique, ents, req.key, req.value,
                                              req.description, req.maker_id, now)
                IN OperationResult(res.entries, reqs, res.err, "", <<>>)
           [] req.operation = "read" ->
                IF IsSQL(db)
                THEN OperationResult(ents, reqs, "none", "", readApprovedConfig(db, ents, req.key))
                ELSE LET res == findOne(SelectSeq(ents, LAMBDA e : e.config_key = req.key
                                                                    /\ e.status = "approved"))
                     IN OperationResult(ents, reqs, res.err, "", res.value)

\* the requests explored: complete ones, ones with one required field
\* missing, an unknown operation, no operation, no host
Request(operation, missing, key) ==
    [operation |-> operation, missing |-> missing,
     key |-> IF "key" \in missing THEN "" ELSE key,
     value |-> Str("a"), description |-> "d",
     maker_id |-> IF "maker_id" \in missing THEN "" ELSE "u1"]

CompleteOperations == {"submit_create", "direct_create", "read"}

WritingOperations == {"submit_create", "direct_create"}

ValidatedOperations ==
    {"submit_create", "submit_update", "submit_delete", "approve_request", "reject_request",
     "get_my_requests", "read", "create", "update", "delete", "exists", "search", "filter"}

HandlerRequests ==
    {Request(operation, {}, "k1") : operation \in CompleteOperations}
    \cup {Request("read", {}, "k2")}
    \cup UNION {{Request(operation, {f}, "k1") : f \in RequiredFields(operation)} :
                    operation \in ValidatedOperations}
    \cup {Request("truncate", {}, "k1"), Request("", {}, "k1"), Request("read", {"host"}, "k1")}

\* AllConfigOperationHandler: request checks, createConnector, Connect,
\* executeAllConfigOperation, and the deferred Close
AllConfigOperationHandler(req, outcome) ==
    /\ pools < MaxPools
    /\ (req.operation \in WritingOperations /\ req.missing = {}) =>
            (clock < MaxCallClock /\ nextId < MaxRequests)
    /\ LET conn == Connect(dbType, "nil", pools, outcome)
           res == executeAllConfigOperation(dbType, uniqueIndex, entries, requests, req,
                                            nextId + 1, clock + 1)
           closed == Close(dbType, conn.db, conn.pools)
           out == IF "host" \in req.missing \/ req.operation = ""
                  THEN OperationResult(entries, requests, "ValidationError", "", <<>>)
                           @@ [pools |-> pools, native |-> FALSE]
                  ELSE IF conn.err # "none"
                  THEN OperationResult(entries, requests, conn.err, "", <<>>)
                           @@ [pools |-> conn.pools, native |-> conn.native]
                  ELSE res @@ [pools |-> closed.pools, native |-> TRUE]
           written == out.entries # entries \/ out.requests # requests
           submitted == Len(out.requests) > Len(requests)
       IN /\ entries' = out.entries
          /\ requests' = out.requests
          /\ nextId' = IF submitted THEN nextId + 1 ELSE nextId
          /\ clock' = IF written THEN clock + 1 ELSE clock
          /\ created' = created \cup (KeysOf(out.entries) \cap Keys)
          /\ pools' = out.pools
          /\ ret' = [op |-> "AllConfigOperationHandler", verb |-> req.operation,
                     params |-> req.missing, was |-> "nil", err |-> out.err,
                     names |-> out.names, native |-> out.native, open |-> out.pools - pools,
                     value |-> out.value]
    /\ UNCHANGED <<connector, dbType, uniqueIndex, calls, last, applied, lastApproved, tables,
                   tableCreated, batch>>

AllConfigOperationHandlerStep ==
    \E req \in HandlerRequests, outcome \in ConnectOutcomes :
        AllConfigOperationHandler(req, outcome)

\* the connection descriptors explored; a connection string is the
\* sequence of the pieces that Sprintf joins
ConnectionConfigs ==
    [host : {"localhost"}, port : {"5432"}, database : {"testdb"},
     username : {"", "admin"}, password : {"", "secret"}, ssl_mode : {"", "require"}]

DbTypeNames == DbTypes \cup {"oracle"}

\* variant: the credentials are included whenever a username is set
GetConnectionString_UserOnly(c, db) ==
    CASE db = "mysql" ->
            [str |-> <<c.username, ":", c.password, "@tcp(", c.host, ":", c.port, ")/", c.database>>,
             err |-> "none"]
      [] db = "postgresql" ->
            [str |-> <<"host=", c.host, " port=", c.port, " user=", c.username, " password=",
                       c.password, " dbname=", c.database, " sslmode=",
                       IF c.ssl_mode = "" THEN "disable" ELSE c.ssl_mode>>,
             err |-> "none"]
      [] db = "mongodb" ->
            [str |-> IF c.username # ""
                     THEN <<"mongodb://", c.username, ":", c.password, "@", c.host, ":", c.port,
                            "/", c.database>>
                     ELSE <<"mongodb://", c.host, ":", c.port, "/", c.database>>,
             err |-> "none"]
      [] OTHER -> [str |-> <<>>, err |-> "UnsupportedOperation"]

\* ConnectionConfig.GetConnectionString
GetConnectionString(c, db) ==
    CASE db = "mysql" ->
            [str |-> <<c.username, ":", c.password, "@tcp(", c.host, ":", c.port, ")/", c.database>>,
             err |-> "none"]
      [] db = "postgresql" ->
            [str |-> <<"host=", c.host, " port=", c.port, " user=", c.username, " password=",
                       c.password, " dbname=", c.database, " sslmode=",
                       IF c.ssl_mode = "" THEN "disable" ELSE c.ssl_mode>>,
             err |-> "none"]
      [] db = "mongodb" ->
            [str |-> IF c.username # "" /\ c.password # ""
                     THEN <<"mongodb://", c.username, ":", c.password, "@", c.host, ":", c.port,
                            "/", c.database>>
                     ELSE <<"mongodb://", c.host, ":", c.port, "/", c.database>>,
             err |-> "none"]
      [] OTHER -> [str |-> <<>>, err |-> "UnsupportedOperation"]

GetConnectionStringStep ==
    \E c \in ConnectionConfigs, db \in DbTypeNames :
        /\ ret' = [NoReturn EXCEPT !.op = "GetConnectionString", !.verb = db, !.was = connector,
                                   !.err = GetConnectionString(c, db).err,
                                   !.value = <<[config |-> c, str |-> GetConnectionString(c, db).str]>>]
        /\ UNCHANGED <<connector, pools>>
        /\ UNCHANGED storeVars

\* a client program calls the methods of its connector, and API calls
\* arrive, one after the other
ConnNext ==
    \/ ConnectStep
    \/ PingStep
    \/ IsConnectedStep
    \/ CloseStep
    \/ ExecuteStep
    \/ QueryStep
    \/ GetConnectionStringStep
    \/ AllConfigOperationHandlerStep

ConnSpec == Init /\ [][ConnNext]_vars

(***************************************************************************)
(* Properties.                                                             *)
(***************************************************************************)
\* requestID names a request whose status is pending
NamesPending(reqs, requestID) ==
    \E i \in 1..Len(reqs) : reqs[i].request_id = requestID /\ reqs[i].status = "pending"

NamesRequest(reqs, requestID) ==
    \E i \in 1..Len(reqs) : reqs[i].request_id = requestID

Resolved(r) == r.status \in {"approved", "rejected"}

\* the step is a reject_request call returning
IsRejectReturn == last'.op = "reject_request" /\ calls' = calls

\* the step is an approve_request call returning from its load step
IsApproveLoadReturn == last'.op = "approve_request" /\ calls' = calls

\* C1: a request starts pending and, once approved or rejected, no later
\* approve or reject changes its status, checker_id, approval_comment or
\* processed_at.
C1_ResolvedIsTerminal ==
    [][/\ \A i \in 1..Len(requests) :
            Resolved(requests[i]) =>
                /\ requests'[i].status = requests[i].status
                /\ requests'[i].checker_id = requests[i].checker_id
                /\ requests'[i].approval_comment = requests[i].approval_comment
                /\ requests'[i].processed_at = requests[i].processed_at
       /\ \A i \in (Len(requests) + 1)..Len(requests') : requests'[i].status = "pending"]_vars

\* C2: reject on a request id that names no request, or a request already
\* approved or rejected, fails with NotFound and changes no request.
C2_RejectNotFound ==
    [][(IsRejectReturn /\ ~NamesPending(requests, last'.rid)) =>
            (last'.err = "NotFound" /\ requests' = requests)]_vars

\* C3: approve on a request id that names no request, or a request that is
\* not pending, fails with NotFound and writes neither store; a call goes on
\* to the direct write only for a request it found pending.
C3_ApproveNotFound ==
    [][/\ \A p \in Procs :
            (calls[p].pc = "idle" /\ calls'[p].pc = "apply") =>
                NamesPending(requests, calls'[p].rid)
       /\ IsApproveLoadReturn =>
            /\ ~NamesPending(requests, last'.rid)
            /\ last'.err = "NotFound"
            /\ entries' = entries
            /\ requests' = requests]_vars

\* an approve of an already approved request has returned NotFound
C3_Witness ==
    /\ last.op = "approve_request"
    /\ last.err = "NotFound"
    /\ \E i \in 1..Len(requests) :
          requests[i].request_id = last.rid /\ requests[i].status = "approved"

\* C4: a request whose status is rejected never had its change applied to
\* the entries store.
C4_RejectedNeverApplied ==
    \A i \in 1..Len(requests) :
        requests[i].status = "rejected" => applied[requests[i].request_id] = 0

\* C5: when the direct write of approve fails, approve returns the error,
\* the status update does not run, the request stays pending with checker_id
\* and processed_at absent, and the entries store is unchanged.
C5_FailedApplyAborts ==
    [][\A p \in Procs :
          calls[p].pc = "apply" =>
            /\ calls'[p].pc = "status" => calls'[p].err = "none"
            /\ calls'[p].pc = "idle" =>
                 /\ last'.op = "approve_request"
                 /\ last'.err # "none"
                 /\ last'.rid = calls[p].rid
                 /\ entries' = entries
                 /\ requests' = requests
                 /\ \E i \in 1..Len(requests') :
                       /\ requests'[i].request_id = calls[p].rid
                       /\ requests'[i].status = "pending"
                       /\ requests'[i].checker_id = Null
                       /\ requests'[i].processed_at = NoTime]_vars

\* the approve of a create request failed on a key that already has an entry
C5_Witness ==
    /\ AllIdle
    /\ last.op = "approve_request"
    /\ last.err = "DuplicateKey"
    /\ \E i \in 1..Len(requests) :
          /\ requests[i].request_id = last.rid
          /\ requests[i].operation = "create"
          /\ requests[i].status = "pending"
          /\ HasKey(entries, requests[i].config_key)

\* the request stored under a request id
RequestOf(reqs, requestID) ==
    reqs[CHOOSE i \in 1..Len(reqs) : reqs[i].request_id = requestID]

KeyCount(ents, key) == Len(SelectSeq(ents, LAMBDA e : e.config_key = key))

\* C6: on each backend, for a key without an entry, submit_create succeeds,
\* the approve of the request then succeeds, and read(k) then returns the
\* entry with the submitted value and status approved.
C6_CreateApproveRead ==
    /\ last.op = "submit_create" => (last.err = "none" /\ NamesPending(requests, last.rid))
    /\ (last.op = "approve_request" /\ NamesRequest(requests, last.rid)) =>
          LET request == RequestOf(requests, last.rid)
              found == readApprovedConfig(dbType, entries, request.config_key)
          IN request.operation = "create" =>
                /\ last.err = "DuplicateKey" => KeyCount(entries, request.config_key) > 0
                /\ last.err \in {"none", "NotFound", "DuplicateKey"}
                /\ (last.err = "none" /\ KeyCount(entries, request.config_key) = 1) =>
                      /\ Len(found) = 1
                      /\ found[1].config_value = request.config_value
                      /\ found[1].status = "approved"

\* the page sizes the list operations are read with
Limits == {0, 1}
Offsets == {0, 1}

InRows(rows, key) == \E i \in 1..Len(rows) : rows[i].config_key = key

\* no approved-only read operation shows key
Invisible(db, ents, key) ==
    /\ readApprovedConfig(db, ents, key) = <<>>
    /\ ~configExistsApproved(db, ents, key)
    /\ countApprovedConfigs(db, ents)
          = Len(SelectSeq(ents, LAMBDA e : e.status = "approved" /\ e.config_key # key))
    /\ \A limit \in Limits, offset \in Offsets :
          /\ ~InRows(readAllApprovedConfigs(db, ents, limit, offset), key)
          /\ \A term \in SearchTerms :
                ~InRows(searchApprovedConfigs(db, ents, term, limit, offset), key)
          /\ \A flt \in Filters :
                ~InRows(filterApprovedConfigs(db, ents, flt, limit, offset).rows, key)

\* C7: a key for which no entry was ever created is invisible to the
\* approved-only read, readAll, search, filter, count and exists, whatever
\* requests are pending for it.
C7_PendingInvisible ==
    \A key \in Keys : key \notin created => Invisible(dbType, entries, key)

\* a create request is pending for a key never created, next to a visible entry
C7_Witness ==
    \E key \in Keys \ created :
        /\ \E i \in 1..Len(requests) :
              /\ requests[i].config_key = key
              /\ requests[i].operation = "create"
              /\ requests[i].status = "pending"
        /\ countApprovedConfigs(dbType, entries) > 0

InHistory(db, reqs, requestID, status) ==
    LET history == getApprovalHistory(db, reqs, 0, 0)
    IN \E i \in 1..Len(history) :
          history[i].request_id = requestID /\ history[i].status = status

\* C8: rejecting the pending create request of a key without an entry
\* succeeds, read(k) still returns no result and the approval history
\* lists the request as rejected.
C8_RejectedCreate ==
    [][\A i \in 1..Len(requests) :
          (/\ IsRejectReturn
           /\ requests[i].request_id = last'.rid
           /\ requests[i].operation = "create"
           /\ requests[i].status = "pending"
           /\ ~HasKey(entries, requests[i].config_key)) =>
                /\ last'.err = "none"
                /\ readApprovedConfig(dbType, entries', requests[i].config_key) = <<>>
                /\ InHistory(dbType, requests', last'.rid, "rejected")]_vars

\* the create request of a key without an entry has just been rejected
C8_Witness ==
    /\ last.op = "reject_request"
    /\ last.err = "none"
    /\ \E i \in 1..Len(requests) :
          /\ requests[i].request_id = last.rid
          /\ requests[i].operation = "create"
          /\ requests[i].status = "rejected"
          /\ ~HasKey(entries, requests[i].config_key)
          /\ applied[last.rid] = 0

\* C9: once the calls have returned, read(k) returns the value of the
\* create or update request approved last for k, and no result when that
\* request is a delete or when no request for k was approved.
C9_VisibleIsLatestApproved ==
    AllIdle =>
        \A key \in Keys :
            LET found == readApprovedConfig(dbType, entries, key)
            IN IF lastApproved[key] # 0
                  /\ RequestOf(requests, lastApproved[key]).operation \in {"create", "update"}
               THEN /\ Len(found) > 0
                    /\ found[1].config_value = RequestOf(requests, lastApproved[key]).config_value
               ELSE found = <<>>

\* C10: two approve calls on one request can both pass the pending check
\* before either writes the status, and both run the direct write: the load
\* takes no claim on the request (it writes nothing and does not see the
\* other call), and the check is made on the stored status alone.
C10_CheckTakesNoClaim ==
    [][\A p \in Procs :
          (calls[p].pc = "idle" /\ calls'[p].pc = "apply") =>
              /\ requests' = requests
              /\ entries' = entries
              /\ \A i \in 1..Len(requests) :
                    requests[i].request_id = calls'[p].rid =>
                        /\ requests[i].status = "pending"
                        /\ calls'[p].request = <<RequestColumns(requests[i])>>]_vars

\* both calls have passed the check and run the direct write of the same
\* request, and neither has written the status
C10_Witness ==
    /\ calls[1].pc = "status"
    /\ calls[2].pc = "status"
    /\ calls[1].rid = calls[2].rid
    /\ applied[calls[1].rid] = 2
    /\ NamesPending(requests, calls[1].rid)

OnlyApproved(rows) == \A i \in 1..Len(rows) : rows[i].status = "approved"

HasApproved(ents, key) ==
    \E i \in 1..Len(ents) : ents[i].config_key = key /\ ents[i].status = "approved"

\* C11: whatever entries the store holds (status absent, pending or rejected
\* included), read, readAll and search return only entries whose status is
\* approved, count is the number of approved entries and exists is true
\* only for a key with an approved entry.
C11_ReadsOnlyApproved ==
    /\ \A key \in KeysOf(entries) \cup Keys :
          /\ OnlyApproved(readApprovedConfig(dbType, entries, key))
          /\ configExistsApproved(dbType, entries, key) <=> HasApproved(entries, key)
    /\ countApprovedConfigs(dbType, entries)
          = Cardinality({i \in 1..Len(entries) : entries[i].status = "approved"})
    /\ \A limit \in Limits, offset \in Offsets :
          /\ OnlyApproved(readAllApprovedConfigs(dbType, entries, limit, offset))
          /\ \A term \in SearchTerms :
                OnlyApproved(searchApprovedConfigs(dbType, entries, term, limit, offset))

\* the store holds an approved entry, an entry without status and a pending
\* or rejected entry
C11_Witness ==
    /\ \E i \in 1..Len(entries) : entries[i].status = "approved"
    /\ \E i \in 1..Len(entries) : entries[i].status = Null
    /\ \E i \in 1..Len(entries) : entries[i].status \in {"pending", "rejected"}
    /\ countApprovedConfigs(dbType, entries) < Len(entries)

\* criteria maps that name the status field, {"status": null} included
StatusCriteria == {flt \in Filters : "status" \in DOMAIN flt} \cup {[f \in {"status"} |-> Null]}

\* C12: for every criteria map, those naming the status field included, the
\* approved-only filter returns only entries whose status is approved, on
\* every backend.
C12_FilterOnlyApproved ==
    \A flt \in Filters \cup StatusCriteria, limit \in Limits, offset \in Offsets :
        OnlyApproved(filterApprovedConfigs(dbType, entries, flt, limit, offset).rows)

\* C13: once create_table has succeeded, the entries store holds at most
\* one entry per key: a direct create of a key that has an entry is refused
\* and adds nothing.
C13_OneEntryPerKey ==
    tableCreated => \A key \in KeysOf(entries) : KeyCount(entries, key) <= 1

\* C14: on every backend a direct update of key k with value v succeeds
\* and is an upsert: afterwards read(k) returns an approved entry with
\* value v, and an entry that k already had keeps its created_at.
C14_UpdateIsUpsert ==
    [][\A key \in Keys, value \in UpdatedValues, description \in Descriptions, makerID \in MakerIds :
          (AllIdle /\ ~Missing("entries") /\ DirectUpdate(key, value, description, makerID)) =>
              LET found == readApprovedConfig(dbType, entries', key)
              IN /\ last'.err = "none"
                 /\ Len(found) > 0
                 /\ found[1].config_value[2] = value[2]
                 /\ found[1].status = "approved"
                 /\ \A i \in 1..Len(entries) :
                       entries[i].config_key = key =>
                           entries'[i].created_at = entries[i].created_at]_vars

\* C15: a direct delete of key k succeeds with no error whether or not k
\* has an entry (so also when called twice in a row), and after it read(k)
\* returns no result.
C15_DeleteIdempotent ==
    [][\A key \in Keys :
          (AllIdle /\ ~Missing("entries") /\ DirectDelete(key)) =>
              /\ last'.err = "none"
              /\ readApprovedConfig(dbType, entries', key) = <<>>]_vars

\* the items of configs whose key has an entry in ents
Duplicating(configs, ents) == {i \in 1..Len(configs) : HasKey(ents, configs[i].key)}

DistinctKeys(configs) ==
    \A i \in 1..Len(configs), j \in 1..Len(configs) : configs[i].key = configs[j].key => i = j

\* C16: a batch create, update or delete over N items attempts every item,
\* never fails as a whole and returns total_items = N, success_count = the
\* number of items that succeeded and failure_count = N - success_count; a
\* batch create in which exactly one key has an entry already returns
\* success_count = N - 1, failure_count = 1 and an error under that key.
C16_BatchCounts ==
    [][(AllIdle /\ ~Missing("entries") /\ batch'.op # "none") =>
          LET configs == batch'.configs
              N == Len(configs)
              succeeded == {i \in 1..N : batch'.errs[i] = "none"}
          IN /\ last'.err = "none"
             /\ Len(batch'.errs) = N
             /\ batch'.total_items = N
             /\ batch'.success_count = Cardinality(succeeded)
             /\ batch'.failure_count = N - batch'.success_count
             /\ (/\ batch'.op = "create"
                 /\ DistinctKeys(configs)
                 /\ Cardinality(Duplicating(configs, entries)) = 1) =>
                    /\ batch'.success_count = N - 1
                    /\ batch'.failure_count = 1
                    /\ \A i \in Duplicating(configs, entries) :
                          batch'.results[configs[i].key] # "none"]_vars

\* C17: submit_create, submit_update, submit_delete and reject_request
\* leave the entries store as it is, whatever it holds and whatever the
\* request.
C17_SubmitRejectKeepEntries ==
    [][(/\ last'.op \in {"submit_create", "submit_update", "submit_delete", "reject_request"}
        /\ calls' = calls) => entries' = entries]_vars

\* a request has just been rejected while its key has an entry
C17_Witness ==
    /\ last.op = "reject_request"
    /\ last.err = "none"
    /\ \E i \in 1..Len(requests) :
          /\ requests[i].request_id = last.rid
          /\ requests[i].status = "rejected"
          /\ HasKey(entries, requests[i].config_key)

\* entry e is what a direct write at time now leaves for the request
WrittenFor(e, request, now) ==
    /\ e.config_key = request.config_key
    /\ e.config_value = request.config_value
    /\ e.description = request.description
    /\ e.maker_id = request.maker_id
    /\ e.checker_id = Null
    /\ e.status = "approved"
    /\ e.updated_at = now

\* C18: the direct write of a successful approve of a create or update
\* request leaves an entry with the request's config_key, config_value and
\* description and the request's maker_id, without a checker; the checker
\* id, comment and processed_at are written by the status update, on the
\* request only.
C18_ApprovedEntryKeepsMaker ==
    [][\A p \in Procs :
          /\ (/\ calls[p].pc = "apply"
              /\ calls'[p].pc = "status"
              /\ calls[p].request[1].operation \in {"create", "update"}) =>
                 /\ requests' = requests
                 /\ \E i \in 1..Len(entries') :
                       WrittenFor(entries'[i], calls[p].request[1], clock')
          /\ (calls[p].pc = "status" /\ calls'[p].pc = "idle" /\ last'.err = "none") =>
                 /\ entries' = entries
                 /\ \A i \in 1..Len(requests') :
                       requests'[i].request_id = calls[p].rid =>
                          /\ requests'[i].checker_id = calls[p].checker
                          /\ requests'[i].approval_comment = calls[p].comment
                          /\ requests'[i].processed_at = clock'
                          /\ requests'[i].maker_id = calls[p].request[1].maker_id]_vars

\* C19: no submit, approve, reject, direct or batch write, delete_all or
\* drop_table removes an approval request: every request stays, under its
\* request id, and the requests store only grows.
C19_RequestsOnlyGrow ==
    [][/\ Len(requests') >= Len(requests)
       /\ \A i \in 1..Len(requests) : requests'[i].request_id = requests[i].request_id]_vars

\* drop_table has succeeded on a backend that holds approval requests
C19_Witness ==
    /\ last.op = "drop_table"
    /\ last.err = "none"
    /\ "entries" \notin tables
    /\ Len(requests) > 0

\* C20: a submit_update or submit_delete for a key that has an approved
\* entry with value v0 stores a request whose previous_value is v0.
C20_PreviousValueCaptured ==
    [][\A operation \in {"update", "delete"}, key \in Keys, value \in Values,
          description \in Descriptions, makerID \in MakerIds :
          (/\ Submit(operation, key, value, description, makerID)
           /\ last'.err = "none"
           /\ HasApproved(entries, key)) =>
              requests'[Len(requests')].previous_value
                  = readApprovedConfig(dbType, entries, key)[1].config_value]_vars

\* the method returned on a connector no Connect had succeeded on
BeforeConnect(op) == ret.op = op /\ ret.was = "nil"

\* C21 as stated: on each of the three connectors, Execute, Query and Ping
\* before any successful Connect fail with a connection-not-established
\* error, whatever the verb and parameters, and IsConnected returns false.
C21_NotConnectedBeforeConnect ==
    /\ (BeforeConnect("Execute") \/ BeforeConnect("Query") \/ BeforeConnect("Ping")) =>
            ret.err = "NotConnected"
    /\ BeforeConnect("IsConnected") => ret.value = <<FALSE>>

\* C21, amended: Execute and Ping on each of the three connectors, and
\* Query on the two relational connectors, before any successful Connect
\* fail with a connection-not-established error, whatever the verb and
\* parameters, and IsConnected returns false; Query on the document
\* connector fails with a not-applicable error, connected or not.
C21_NotConnectedExceptDocumentQuery ==
    /\ (BeforeConnect("Execute") \/ BeforeConnect("Ping")) => ret.err = "NotConnected"
    /\ (BeforeConnect("Query") /\ IsSQL(dbType)) => ret.err = "NotConnected"
    /\ (ret.op = "Query" /\ ~IsSQL(dbType)) => ret.err = "NotApplicable"
    /\ BeforeConnect("IsConnected") => ret.value = <<FALSE>>
    /\ connector = "nil" =>
          \A verb \in ExploredVerbs, params \in ParamSets :
              /\ Execute(dbType, connector, pools, verb, params).err = "NotConnected"
              /\ ~Execute(dbType, connector, pools, verb, params).native

\* Execute with an unsupported verb and no parameters has returned
\* not-connected after a Connect of the same connector failed its ping
C21_Witness ==
    /\ BeforeConnect("Execute")
    /\ ret.verb = "truncate"
    /\ ret.params = {}
    /\ ret.err = "NotConnected"
    /\ connector = "nil"
    /\ pools > 0

\* the verbs the design gives both relational connectors
RelationalVerbs == {"select", "insert", "update", "delete", "execute"}

\* C22: the two relational connectors accept the same verbs in Execute:
\* each of select, insert, update, delete and execute, given a query text,
\* is run as a statement by the mysql and by the postgresql connector.
C22_SameRelationalVerbs ==
    /\ (ret.op = "Execute" /\ IsSQL(dbType) /\ ret.was = "open"
            /\ ret.verb \in RelationalVerbs /\ "query" \in ret.params) =>
          (ret.err = "none" /\ ret.native)
    /\ connector = "open" =>
          \A verb \in RelationalVerbs \cup ExploredVerbs, params \in ParamSets :
              SQLExecute("mysql", connector, pools, verb, params)
                  = SQLExecute("postgresql", connector, pools, verb, params)

\* the endpoint has answered a request that lacks a field its operation
\* requires
AnsweredMissingInput ==
    /\ ret.op = "AllConfigOperationHandler"
    /\ ret.verb \in ValidatedOperations
    /\ RequiredFields(ret.verb) \cap ret.params # {}

\* C23: a config or governance operation whose required caller input is
\* missing fails with a validation error without any prior interaction with
\* the backend, Connect included.
C23_ValidationBeforeBackend ==
    AnsweredMissingInput => (ret.err = "ValidationError" /\ ~ret.native /\ ret.open = 0)

\* C24: on each of the three connectors, Close returns no error on a
\* connector that was never connected and on a connector that an earlier
\* Close has closed.
C24_CloseIsRepeatable ==
    (ret.op = "Close" /\ ret.was \in {"nil", "closed"}) => ret.err = "none"

\* C25: on a connected connector, Execute with a verb outside the supported
\* set of its backend fails with an unsupported-operation error naming the
\* verb and hands nothing to the driver; an unknown governance operation
\* likewise fails with an unsupported-operation error and changes neither
\* store.
C25_UnsupportedIsRejected ==
    [][/\ (ret'.op = "Execute" /\ ret'.was = "open" /\ ~ExecuteSupported(dbType, ret'.verb)) =>
              (ret'.err = "UnsupportedOperation" /\ ret'.names = ret'.verb /\ ~ret'.native)
       /\ (ret'.op = "AllConfigOperationHandler" /\ ret'.verb \notin SupportedOperations \cup {""}
              /\ "host" \notin ret'.params /\ ret'.err # "ConnectionError") =>
              (ret'.err = "UnsupportedOperation" /\ ret'.names = ret'.verb
                  /\ entries' = entries /\ requests' = requests)]_vars

\* a checker's approve of a create or update request for key has reached
\* its direct write
ApprovalFor(key) ==
    \E i \in 1..Len(requests) :
        /\ requests[i].config_key = key
        /\ requests[i].operation \in {"create", "update"}
        /\ applied[requests[i].request_id] > 0

\* C26: under any sequence of operations that the dispatcher accepts, an
\* approved-only read returns an entry only if a checker approved a request
\* carrying that change beforehand.
C26_VisibleOnlyAfterApproval ==
    \A key \in Keys :
        readApprovedConfig(dbType, entries, key) # <<>> => ApprovalFor(key)

IdsOf(rows) == {rows[i].request_id : i \in 1..Len(rows)}

\* rows are exactly the requests that satisfy Test, each once
ExactlyThose(rows, Test(_)) ==
    /\ IdsOf(rows) = {requests[i].request_id : i \in {j \in 1..Len(requests) : Test(requests[j])}}
    /\ Len(rows) = Cardinality(IdsOf(rows))
    /\ \A i \in 1..Len(rows) : \E j \in 1..Len(requests) : requests[j] = rows[i]

ListPending == getPendingApprovals(dbType, requests, 0, 0)

ListHistory == getApprovalHistory(dbType, requests, 0, 0)

ListMine(m) == getMyRequests(dbType, requests, m, 0, 0)

\* C27: with no limit, listPending returns exactly the pending requests
\* oldest-first by requested_at, listHistory exactly the approved and
\* rejected requests newest-first by processed_at, listMine(m) exactly the
\* requests of maker m newest-first; every request is in exactly one of
\* listPending and listHistory.
C27_ListsPartitionRequests ==
    /\ ExactlyThose(ListPending, LAMBDA r : r.status = "pending")
    /\ \A i, j \in 1..Len(ListPending) :
          i < j => ListPending[i].requested_at <= ListPending[j].requested_at
    /\ ExactlyThose(ListHistory, LAMBDA r : r.status \in {"approved", "rejected"})
    /\ \A i, j \in 1..Len(ListHistory) :
          i < j => ListHistory[i].processed_at >= ListHistory[j].processed_at
    /\ \A m \in MakerIds \cup CheckerIds :
          /\ ExactlyThose(ListMine(m), LAMBDA r : r.maker_id = m)
          /\ \A i, j \in 1..Len(ListMine(m)) :
                i < j => ListMine(m)[i].requested_at >= ListMine(m)[j].requested_at
    /\ \A i \in 1..Len(requests) :
          (requests[i].request_id \in IdsOf(ListPending))
              # (requests[i].request_id \in IdsOf(ListHistory))

\* the first request was resolved after the second, and the maker has two
\* requests: the history and the maker's list are not in insertion order
C27_Witness ==
    /\ Len(ListHistory) = 2
    /\ ListHistory[1].request_id = 1
    /\ ListHistory[1].processed_at > ListHistory[2].processed_at
    /\ Len(ListMine("u1")) = 2
    /\ ListMine("u1")[1].request_id = 2

\* the endpoint has answered a complete read request on a connection it
\* established
AnsweredRead ==
    /\ ret.op = "AllConfigOperationHandler"
    /\ ret.verb = "read"
    /\ ret.params = {}
    /\ ret.err # "ConnectionError"

\* C28: on every backend, a single-entry read (read(k), findOne on the
\* document backend) that matches nothing returns an empty result and no
\* error.
C28_NoMatchIsNoError ==
    /\ AnsweredRead => ret.err = "none"
    /\ (AnsweredRead /\ \A key \in Keys : ~HasApproved(entries, key)) => ret.value = <<>>
    /\ \A key \in Keys :
          ~HasApproved(entries, key) =>
              LET res == executeAllConfigOperation(dbType, uniqueIndex, entries, requests,
                                                   Request("read", {}, key), nextId + 1, clock + 1)
              IN res.err = "none" /\ res.value = <<>>

\* a read of a key without an entry has returned empty from a store that
\* holds an entry for another key
C28_Witness ==
    /\ AnsweredRead
    /\ ret.err = "none"
    /\ ret.value = <<>>
    /\ entries # <<>>
    /\ dbType = "mongodb"

\* C29: every pool or client that Connect opens during an API call, one
\* opened by a Connect that then fails its ping included, is closed before
\* the call returns: no pool stays open after the call.
C29_CallLeavesNoPoolOpen ==
    ret.op = "AllConfigOperationHandler" => ret.open = 0

\* the terms searched for: letters, a digit, and the two punctuation marks
SubstringTerms == SearchTerms \cup {"7", "_", "."}

\* term occurs, whatever the case, in the text of a field
OccursIn(term, v) == v # Nil /\ ContainsCI(term, v[2])

SubstringHits(term) ==
    SelectSeq(entries, LAMBDA e :
        /\ e.status = "approved"
        /\ \/ OccursIn(term, Str(e.config_key))
           \/ OccursIn(term, e.config_value)
           \/ OccursIn(term, Str(e.description)))

\* C30: on every backend and for every term, search(term) returns exactly
\* the approved entries in whose key, value or description the term occurs
\* as a case-insensitive substring.
C30_SearchIsSubstring ==
    \A term \in SubstringTerms :
        LET rows == searchApprovedConfigs(dbType, entries, term, 0, 0)
            hits == SubstringHits(term)
        IN /\ Len(rows) = Len(hits)
           /\ \A i \in 1..Len(rows) : \E j \in 1..Len(hits) : hits[j] = rows[i]
           /\ \A j \in 1..Len(hits) : \E i \in 1..Len(rows) : rows[i] = hits[j]

\* GetConnectionString has returned for descriptor c and type db
Built(c, db) ==
    /\ ret.op = "GetConnectionString"
    /\ ret.verb = db
    /\ ret.value[1].config = c

C32_FailedStatusLeavesWrite ==
    [][\A p \in Procs :
          (calls[p].pc = "status" /\ calls'[p].pc = "idle" /\ last'.err # "none") =>
            /\ last'.op = "approve_request"
            /\ last'.rid = calls[p].rid
            /\ calls[p].err = "none"
            /\ applied'[calls[p].rid] > 0
            /\ entries' = entries
            /\ RequestOf(requests', calls[p].rid).status = "pending"
            /\ LET found == getPendingRequestByID(dbType, requests', calls[p].rid)
               IN /\ found # <<>>
                  /\ found[1].request_id = calls[p].rid
                  /\ found[1].operation = calls[p].request[1].operation]_vars

\* the status update of one request failed twice, each time after its
\* direct write had been applied
C32_Witness ==
    /\ AllIdle
    /\ last.op = "approve_request"
    /\ last.err = "BackendExecutionError"
    /\ applied[last.rid] = 2
    /\ RequestOf(requests, last.rid).status = "pending"

\* C33: on postgresql the approved-only filter with n >= 1 criteria numbers
\* its placeholders exactly 1..n, the i-th argument bound to $i, so the
\* statement runs and returns the approved entries that match the criteria.
C33_PlaceholdersFromOne ==
    dbType = "postgresql" =>
        \A flt \in Filters :
            LET n == Cardinality(DOMAIN flt)
                res == filterApprovedConfigs(dbType, entries, flt, 0, 0)
            IN /\ FilterPlaceholders(n) = 1..n
               /\ res.err = "none"
               /\ \A i \in 1..Len(entries) :
                     (/\ entries[i].status = "approved"
                      /\ \A f \in DOMAIN flt : entries[i][f] = flt[f])
                       => InRows(res.rows, entries[i].config_key)

\* C34: after a delete_all that returns no error the entries store is empty
\* on every backend: the count of all entries is 0 and the unfiltered read
\* of all entries returns none.
C34_DeleteAllEmpties ==
    [][(AllIdle /\ DeleteAll /\ last'.err = "none") => entries' = <<>>]_vars

\* C35: create_table invoked when the table or collection already exists
\* succeeds and leaves the store unchanged on every backend: it creates
\* nothing and inserts no further sentinel entry, so invoking it twice has
\* the effect of invoking it once.
C35_CreateTableIdempotent ==
    [][(/\ AllIdle
        /\ tableCreated
        /\ ~Missing("entries")
        /\ dbType = "mongodb" => HasKey(entries, InitKey)
        /\ CreateTable)
          => /\ last'.err = "none"
             /\ entries' = entries
             /\ tables' = tables]_vars

\* a direct create call (create / set_config, create_batch, set_multiple)
\* returns in this step
IsDirectCreateReturn ==
    /\ AllIdle
    /\ calls' = calls
    /\ last'.op \in {"direct_create", "direct_create_batch", "set_multiple"}

\* C36: every direct create path of the dispatcher (create / set_config,
\* create_batch with config_items, create_batch / set_multiple with a
\* configs map) writes the entry with status approved on every backend, so
\* a following approved-only read of that key returns the entry.
C36_DirectCreateIsApproved ==
    [][IsDirectCreateReturn =>
          \A key \in Keys :
              (HasKey(entries', key) /\ ~HasKey(entries, key)) =>
                  /\ readApprovedConfig(dbType, entries', key) # <<>>
                  /\ \A i \in 1..Len(entries') :
                        entries'[i].config_key = key => entries'[i].status = "approved"]_vars

\* C37: segregation of duties: approve_request and reject_request resolve a
\* request only when the checker id differs from the request's maker_id, so
\* no resolved request has a checker_id equal to its maker_id.
C37_CheckerIsNotMaker ==
    \A i \in 1..Len(requests) :
        Resolved(requests[i]) => requests[i].checker_id # requests[i].maker_id

\* the keys of a list of entries, in order
KeySeq(rows) == [i \in 1..Len(rows) |-> rows[i].config_key]

\* the request ids of a list of requests, in order
IdSeq(rows) == [i \in 1..Len(rows) |-> rows[i].request_id]

\* C38: for the same store contents a paginated list operation with the
\* same limit and offset returns the same sequence of keys or request ids
\* on the relational backends and on the document backend, for every
\* limit >= 0 and offset >= 0, limit = 0 (no limit) with offset > 0 included.
C38_SamePageOnEveryBackend ==
    \A limit \in Limits, offset \in Offsets, db \in {"mysql", "postgresql"} :
        /\ KeySeq(readAllApprovedConfigs(db, entries, limit, offset))
              = KeySeq(readAllApprovedConfigs("mongodb", entries, limit, offset))
        /\ IdSeq(getPendingApprovals(db, requests, limit, offset))
              = IdSeq(getPendingApprovals("mongodb", requests, limit, offset))

\* C39: in every state reachable by submit, approve and reject, under any
\* interleaving, a request's status is pending if and only if its
\* checker_id is absent, and if and only if its processed_at is absent.
C39_PendingIffUnprocessed ==
    \A i \in 1..Len(requests) :
        /\ requests[i].status = "pending" <=> requests[i].checker_id = Null
        /\ requests[i].status = "pending" <=> requests[i].processed_at = NoTime

\* one request is resolved and stamped while another is still pending
C39_Witness ==
    /\ \E i \in 1..Len(requests) :
          /\ Resolved(requests[i])
          /\ requests[i].checker_id \in CheckerIds
          /\ requests[i].processed_at > 0
    /\ \E i \in 1..Len(requests) :
          /\ requests[i].status = "pending"
          /\ requests[i].checker_id = Null

\* C40: in every reachable state and on every backend the approved-only
\* reads agree: exists(k) is true if and only if read(k) returns a result,
\* and count() equals the number of entries readAll returns with no limit.
C40_ApprovedReadsAgree ==
    /\ \A key \in Keys \cup {InitKey} :
          configExistsApproved(dbType, entries, key)
              <=> readApprovedConfig(dbType, entries, key) # <<>>
    /\ countApprovedConfigs(dbType, entries)
          = Len(readAllApprovedConfigs(dbType, entries, 0, 0))

\* the store holds an approved entry of one key and an entry of another key
\* that is not approved
C40_Witness ==
    \E key \in Keys, other \in (Keys \cup {InitKey}) :
        /\ configExistsApproved(dbType, entries, key)
        /\ readApprovedConfig(dbType, entries, key) # <<>>
        /\ HasKey(entries, other)
        /\ ~configExistsApproved(dbType, entries, other)
        /\ countApprovedConfigs(dbType, entries) < Len(entries)

====
